---- MODULE Spec2Model ----
(***************************************************************************)
(* A model of the compiler orchestrator of ts-simple-type                  *)
(* (src/src/transform/compile-simple-type.ts) and of the recursive walker  *)
(* it is built on (src/src/visitor.ts, src/src/simple-type-path.ts).       *)
(*                                                                         *)
(* JavaScript values are modelled as follows.                              *)
(*   - an optional value (T | undefined) is <<>> or <<v>>;                 *)
(*   - a string is a TLA+ string, `${a}${b}` is a \o b and a number in a   *)
(*     template is ToString(n);                                            *)
(*   - an object with identity (a type, an output node, a program, an      *)
(*     error) is an index into a heap: Types, nodes, programs, errors;     *)
(*   - an insertion-ordered Map or Set is a sequence without duplicate     *)
(*     keys.                                                               *)
(***************************************************************************)
EXTENDS Integers, Sequences, FiniteSets, TLC

VARIABLES
    programs,   \* heap of SimpleTypeCompilerProgram objects
    current,    \* SimpleTypeCompiler.current: [outputLocation, program]
    stack,      \* the JavaScript call stack, innermost frame last
    result,     \* what the callee handed to the frame on top: a value or a throw
    nodes,      \* heap of output AST nodes
    errors,     \* heap of thrown values
    annotated,  \* ALREADY_ANNOTATED_ERROR_WITH_PATH
    hist        \* observations: calls made to the compiler and to the target

vars == <<programs, current, stack, result, nodes, errors, annotated, hist>>

-----------------------------------------------------------------------------
(* Bounds *)

NumTypes == 3

Types == 1..NumTypes

-----------------------------------------------------------------------------
(* Optional values and small helpers *)

None == <<>>

Some(v) == <<v>>

RECURSIVE Join(_, _)
\* Array.prototype.join
Join(arr, sep) ==
    IF Len(arr) = 0 THEN ""
    ELSE IF Len(arr) = 1 THEN arr[1]
    ELSE arr[1] \o sep \o Join(Tail(arr), sep)

-----------------------------------------------------------------------------
(* The input types.  Type 1 is a named interface; the others are anonymous  *)
(* object types.                                                            *)

TypeNameOf(t) == IF t = 1 THEN Some("Foo") ELSE None

TypeKindOf(t) == IF t = 1 THEN "INTERFACE" ELSE "OBJECT"

\* snakeCaseToCamelCase applied to `ANONYMOUS_${kind}` for the kinds above
SnakeCaseToCamelCase(snakeCase) ==
    CASE snakeCase = "ANONYMOUS_OBJECT" -> "AnonymousObject"
      [] snakeCase = "ANONYMOUS_INTERFACE" -> "AnonymousInterface"
      [] snakeCase = "ANONYMOUS_STRING" -> "AnonymousString"
      [] snakeCase = "ANONYMOUS_ALIAS" -> "AnonymousAlias"
      [] OTHER -> snakeCase

\* inferTypeName for types whose kind has no structural naming rule
InferTypeName(t) ==
    IF TypeNameOf(t) # None THEN TypeNameOf(t)[1]
    ELSE SnakeCaseToCamelCase("ANONYMOUS_" \o TypeKindOf(t))

-----------------------------------------------------------------------------
(* Locations *)

\* const NO_DESTINATION_LOCATION
NO_DESTINATION_LOCATION == [fileName |-> "", namespace |-> None]

\* function outputLocationToKey; location.name is optional here
OutputLocationToKey(location) ==
    "file:" \o location.fileName
      \o " namespace:" \o (IF location.namespace = None THEN "<none>"
                           ELSE Join(location.namespace[1], "/"))
      \o " name:" \o (IF location.name = None THEN "<none>" ELSE location.name[1])

\* SimpleTypeCompilerLocation.namespaceEqual
NamespaceEqual(a, b) ==
    IF a.namespace = None /\ b.namespace = None THEN TRUE
    ELSE IF a.namespace = None \/ b.namespace = None THEN FALSE
    ELSE /\ Len(a.namespace[1]) = Len(b.namespace[1])
         /\ \A i \in 1..Len(a.namespace[1]) : a.namespace[1][i] = b.namespace[1][i]

\* SimpleTypeCompilerLocation.fileAndNamespaceEqual
FileAndNamespaceEqual(a, b) == a.fileName = b.fileName /\ NamespaceEqual(a, b)

-----------------------------------------------------------------------------
(* SimpleTypeCompilerProgram *)

\* new SimpleTypeCompilerProgram()
NewProgram ==
    [ entryPoints |-> <<>>,
      files |-> <<>>,
      declarationLocationNameCount |-> <<>>,
      typeToDeclarationLocationCache |-> [t \in Types |-> None],
      typeToAstNodeCache |-> [t \in Types |-> None] ]

\* Map.get on a sequence of [key, value] records
MapHas(map, key) == \E i \in 1..Len(map) : map[i].key = key

MapGet(map, key) == map[CHOOSE i \in 1..Len(map) : map[i].key = key].value

\* Map.set: an existing key keeps its place
MapSet(map, key, value) ==
    IF MapHas(map, key)
    THEN [i \in 1..Len(map) |-> IF map[i].key = key THEN [key |-> key, value |-> value] ELSE map[i]]
    ELSE Append(map, [key |-> key, value |-> value])

\* SimpleTypeCompilerProgram.getDeclarationLocationCount
GetDeclarationLocationCount(program, location) ==
    LET key == OutputLocationToKey([location EXCEPT !.name = Some(location.name)])
    IN IF MapHas(program.declarationLocationNameCount, key)
       THEN MapGet(program.declarationLocationNameCount, key)
       ELSE 0

\* SimpleTypeCompilerProgram.setDeclarationLocationCount
SetDeclarationLocationCount(program, location, count) ==
    LET key == OutputLocationToKey([location EXCEPT !.name = Some(location.name)])
    IN [program EXCEPT !.declarationLocationNameCount = MapSet(@, key, count)]

-----------------------------------------------------------------------------
(* SimpleTypeCompiler.assignDeclarationLocation *)

\* `${maybeUniqueLocation.name}${count}` when count > 0
UniqueName(name, count) == IF count > 0 THEN name \o ToString(count) ELSE name

\* a choice of location that prefers the current output location to the
\* target's suggestion
MaybeUniqueLocation_CurrentFirst(cur, type, location, suggested) ==
    LET suggestedLocation ==
            IF location # None THEN location[1]
            ELSE IF cur.outputLocation # None
            THEN [ fileName |-> cur.outputLocation[1].fileName,
                   namespace |-> cur.outputLocation[1].namespace, name |-> None ]
            ELSE IF suggested # None THEN suggested[1]
            ELSE NO_DESTINATION_LOCATION @@ [name |-> None]
    IN [ name |-> IF suggestedLocation.name # None THEN suggestedLocation.name[1]
                  ELSE InferTypeName(type),
         fileName |-> suggestedLocation.fileName,
         namespace |-> suggestedLocation.namespace ]

\* The location chosen for a type that has none yet: `location` is the
\* argument, `suggested` what target.suggestDeclarationLocation returns (None
\* when the target has no such hook or returns undefined).
MaybeUniqueLocation(cur, type, location, suggested) ==
    LET currentFilenameNamespace ==
            IF cur.outputLocation = None THEN None
            ELSE Some([fileName |-> cur.outputLocation[1].fileName,
                       namespace |-> cur.outputLocation[1].namespace])
        fallback ==
            IF currentFilenameNamespace # None
            THEN currentFilenameNamespace[1] @@ [name |-> None]
            ELSE NO_DESTINATION_LOCATION @@ [name |-> None]
        suggestedLocation ==
            IF location # None THEN location[1]
            ELSE IF suggested # None THEN suggested[1]
            ELSE fallback
    IN [ name |-> IF suggestedLocation.name # None THEN suggestedLocation.name[1]
                  ELSE InferTypeName(type),
         fileName |-> suggestedLocation.fileName,
         namespace |-> suggestedLocation.namespace ]

\* assignDeclarationLocation without its early return for an assigned type
AssignDeclarationLocation_Reassigns(program, cur, type, location, suggested) ==
    LET maybeUniqueLocation == MaybeUniqueLocation(cur, type, location, suggested)
        count == GetDeclarationLocationCount(program, maybeUniqueLocation)
        counted == SetDeclarationLocationCount(program, maybeUniqueLocation, count + 1)
        uniqueLocation ==
            [maybeUniqueLocation EXCEPT !.name = UniqueName(maybeUniqueLocation.name, count)]
    IN [ program |-> [counted EXCEPT !.typeToDeclarationLocationCache[type] =
                                         Some(uniqueLocation)],
         location |-> uniqueLocation, fresh |-> TRUE,
         base |-> maybeUniqueLocation ]

\* an assignment whose unique name is made from the identity of the type
AssignDeclarationLocation_NamedByType(program, cur, type, location, suggested) ==
    LET existingLocationForType == program.typeToDeclarationLocationCache[type]
        maybeUniqueLocation == MaybeUniqueLocation(cur, type, location, suggested)
        uniqueLocation ==
            [maybeUniqueLocation EXCEPT !.name = UniqueName(maybeUniqueLocation.name, type)]
    IN IF existingLocationForType # None
       THEN [ program |-> program, location |-> existingLocationForType[1], fresh |-> FALSE,
              base |-> existingLocationForType[1] ]
       ELSE [ program |-> [program EXCEPT !.typeToDeclarationLocationCache[type] =
                                              Some(uniqueLocation)],
              location |-> uniqueLocation, fresh |-> TRUE,
              base |-> maybeUniqueLocation ]

\* The whole method: the program after the call and the location returned.
AssignDeclarationLocation(program, cur, type, location, suggested) ==
    LET existingLocationForType == program.typeToDeclarationLocationCache[type]
        maybeUniqueLocation == MaybeUniqueLocation(cur, type, location, suggested)
        count == GetDeclarationLocationCount(program, maybeUniqueLocation)
        counted == SetDeclarationLocationCount(program, maybeUniqueLocation, count + 1)
        uniqueLocation ==
            [maybeUniqueLocation EXCEPT !.name = UniqueName(maybeUniqueLocation.name, count)]
    IN IF existingLocationForType # None
       THEN [ program |-> program, location |-> existingLocationForType[1], fresh |-> FALSE,
              base |-> existingLocationForType[1] ]
       ELSE [ program |-> [counted EXCEPT !.typeToDeclarationLocationCache[type] =
                                              Some(uniqueLocation)],
              location |-> uniqueLocation, fresh |-> TRUE,
              base |-> maybeUniqueLocation ]

-----------------------------------------------------------------------------
(* The inputs of assignDeclarationLocation *)

FileNames == {"a.out", "b.out"}

Namespaces == {None, Some(<<"a", "b">>), Some(<<"a/b">>)}

ExplicitNames == {None, Some("Foo"), Some("Foo1")}

\* location arguments of assignDeclarationLocation
LocationArgs ==
    {None} \cup {Some([fileName |-> "a.out", namespace |-> ns, name |-> n]) :
                    ns \in Namespaces, n \in ExplicitNames}

\* results of target.suggestDeclarationLocation: undefined, or a file
Suggestions == {None, Some([fileName |-> "b.out", namespace |-> None, name |-> None])}

-----------------------------------------------------------------------------
(* The type graph and paths through it *)

\* The member types of each input type:
\*   type 1 = { next?: type 1 }, type 2 = { a: type 3, b: type 1 }, type 3 = {}
MemberTypes(t) ==
    CASE t = 1 -> <<1>>
      [] t = 2 -> <<3, 1>>
      [] OTHER -> <<>>

InTypes(t) == t \in Types

Children(t) == SelectSeq(MemberTypes(t), InTypes)

\* SimpleTypePathStepNamedMember for member number index of `from`
NamedMemberStep(from, index) == [step |-> "NAMED_MEMBER", from |-> from, index |-> index]

\* SimpleTypePath.includes
Includes(path, type) == \E i \in 1..Len(path) : path[i].from = type

\* a getSubpathFrom that starts at the last step from the type, not the first
GetSubpathFrom_LastStep(path, fromType) ==
    IF Includes(path, fromType)
    THEN LET fromIndex == CHOOSE i \in 1..Len(path) :
                 /\ path[i].from = fromType
                 /\ \A j \in (i + 1)..Len(path) : path[j].from # fromType
         IN Some(SubSeq(path, fromIndex, Len(path)))
    ELSE None

\* path.findIndex(step => step.from === fromType): the 0-based index of the
\* first such step, or -1
FindIndex(path, fromType) ==
    LET found == {i \in 1..Len(path) : path[i].from = fromType}
    IN IF found = {} THEN -1
       ELSE (CHOOSE i \in found : \A j \in found : i <= j) - 1

\* path.slice(start): a new array of the elements from the 0-based index
\* `start` on; the array it is called on stays as it is
Slice(path, start) == SubSeq(path, start + 1, Len(path))

\* a getSubpathFrom that leaves out the step from the type itself
GetSubpathFrom_AfterStep(path, fromType) ==
    IF FindIndex(path, fromType) < 0 THEN None
    ELSE Some(Slice(path, FindIndex(path, fromType) + 1))

\* SimpleTypePath.getSubpathFrom
GetSubpathFrom(path, fromType) ==
    IF FindIndex(path, fromType) < 0 THEN None
    ELSE Some(Slice(path, FindIndex(path, fromType)))

\* SimpleTypePath.concat with one step
Concat(prefix, step) == Append(prefix, step)

-----------------------------------------------------------------------------
(* Output AST nodes *)

\* new SimpleTypeCompilerNode(...): shouldCache = true
PlainNode(type, chunks) ==
    [ cls |-> "Node", shouldCache |-> TRUE, location |-> None, refersTo |-> None,
      refersToDeclaration |-> None, children |-> chunks, type |-> type ]

\* SimpleTypeCompilerNode.doNotCache
DoNotCache(node) == [node EXCEPT !.shouldCache = FALSE]

\* SimpleTypeCompilerNodeBuilder.declaration
DeclarationNode(type, location, chunks) ==
    [PlainNode(type, chunks) EXCEPT !.cls = "Declaration", !.location = Some(location)]

\* SimpleTypeCompilerNodeBuilder.reference(to, chunks): `to` is
\* [location, node], node being the declaration node when `to` is one
ReferenceNode(to, chunks) ==
    [ cls |-> IF to.node # None THEN "DeclarationReference" ELSE "Reference",
      shouldCache |-> FALSE, location |-> None, refersTo |-> Some(to.location),
      refersToDeclaration |-> to.node, children |-> chunks, type |-> None ]

\* instanceof SimpleTypeCompilerReferenceNode
IsReference(node) == node.cls \in {"Reference", "DeclarationReference"}

\* instanceof SimpleTypeCompilerDeclarationNode
IsDeclaration(node) == node.cls = "Declaration"

\* What the target's compileReference builds
ReferenceFlavours == {"plain", "plainNoCache", "reference"}

\* a compileReference that returns the target's node as it is
CompileReference_NoUpgrade(heap, to, flavour) ==
    LET id == Len(heap) + 1
    IN CASE flavour = "plain" ->
              [ nodes |-> Append(heap, PlainNode(None, <<>>)), node |-> id ]
         [] flavour = "plainNoCache" ->
              [ nodes |-> Append(heap, DoNotCache(PlainNode(None, <<>>))), node |-> id ]
         [] OTHER ->
              [ nodes |-> Append(heap, ReferenceNode(to, <<>>)), node |-> id ]

\* compileReference with the upgrade of a plain cacheable node; the heap after
\* the call and the node returned
CompileReference(heap, to, flavour) ==
    LET id == Len(heap) + 1
    IN CASE flavour = "plain" ->
              \* result.constructor === SimpleTypeCompilerNode && result.shouldCache
              [ nodes |-> heap \o <<PlainNode(None, <<>>), ReferenceNode(to, <<id>>)>>,
                node |-> id + 1 ]
         [] flavour = "plainNoCache" ->
              [ nodes |-> Append(heap, DoNotCache(PlainNode(None, <<>>))), node |-> id ]
         [] OTHER ->
              [ nodes |-> Append(heap, ReferenceNode(to, <<>>)), node |-> id ]

-----------------------------------------------------------------------------
(* The kernel of compileType: the visitor it hands to walkRecursive *)

\* compileType's visitor without the cycle check
KernelBranch_NoCycleCheck(program, cur, type, path) ==
    IF program.typeToAstNodeCache[type] # None THEN "cached" ELSE "delegate"

\* compileType's visitor compiling the reference without looking at the
\* current output location
KernelBranch_NoLocationCheck(program, cur, type, path) ==
    IF program.typeToAstNodeCache[type] # None THEN "cached"
    ELSE IF Includes(path, type) /\ program.typeToDeclarationLocationCache[type] # None
         THEN "reference"
         ELSE "delegate"

\* Which way the visitor goes for (type, path)
KernelBranch(program, cur, type, path) ==
    IF program.typeToAstNodeCache[type] # None THEN "cached"
    ELSE IF Includes(path, type) /\ program.typeToDeclarationLocationCache[type] # None
         THEN IF cur.outputLocation = None THEN "noLocation" ELSE "reference"
         ELSE "delegate"

\* setAstNode without the shouldCache test's effect: nothing is stored
CacheResult_Never(program, type, heap, node) == program

\* if (result.shouldCache) program.setAstNode(args.type, result)
CacheResult(program, type, heap, node) ==
    IF heap[node].shouldCache
    THEN [program EXCEPT !.typeToAstNodeCache[type] = Some(node)]
    ELSE program

-----------------------------------------------------------------------------
(* compileProgram: assigning nodes to files *)

\* Set.add on a sequence
SetAdd(set, v) == IF \E i \in 1..Len(set) : set[i] = v THEN set ELSE Append(set, v)

\* new SimpleTypeCompilerTargetFile(fileName)
NewFile == [nodes |-> <<>>, references |-> <<>>]

\* SimpleTypeCompilerProgram.getOrCreateFile, on the files map
GetOrCreateFile(files, fileName) ==
    IF MapHas(files, fileName) THEN files ELSE MapSet(files, fileName, NewFile)

\* SimpleTypeCompilerTargetFile.addReference
AddReference(files, fileName, location) ==
    LET file == MapGet(files, fileName)
        key == OutputLocationToKey([location EXCEPT !.name = Some(location.name)])
    IN MapSet(files, fileName, [file EXCEPT !.references = MapSet(@, key, location)])

\* SimpleTypeCompilerTargetFile.addNode
AddNode(files, fileName, node) ==
    LET file == MapGet(files, fileName)
    IN MapSet(files, fileName, [file EXCEPT !.nodes = SetAdd(@, node)])

\* assignNodeToFile leaving a declaration node in the file it was reached from
SwitchFile_Stays(n, currentFile) == currentFile

\* if (node instanceof SimpleTypeCompilerDeclarationNode)
\*     currentFile = outputProgram.getOrCreateFile(node.location.fileName)
SwitchFile(n, currentFile) ==
    IF IsDeclaration(n) THEN n.location[1].fileName ELSE currentFile

RECURSIVE AssignNodeToFile(_, _, _, _, _)
RECURSIVE AssignChildrenToFile(_, _, _, _, _)

\* node.children.forEach(child => assignNodeToFile(child, currentFile)), from
\* child number i on
AssignChildrenToFile(heap, st, chunks, i, currentFile) ==
    IF i > Len(chunks) THEN st
    ELSE AssignChildrenToFile(heap, AssignNodeToFile(heap, st, chunks[i], currentFile, FALSE),
                              chunks, i + 1, currentFile)

\* assignNodeToFile of compileProgram; st is [assignedToFile, outputFileNames,
\* files], currentFile the name of a file that exists in st.files
AssignNodeToFile(heap, st, node, currentFile, top) ==
    LET n == heap[node]
        named == [st EXCEPT !.outputFileNames = SetAdd(@, currentFile)]
        marked == [named EXCEPT !.assignedToFile = @ \cup {node}]
        referenced ==
            IF IsReference(n)
            THEN [marked EXCEPT !.files = AddReference(@, currentFile, n.refersTo[1])]
            ELSE marked
        declarationFile == heap[n.refersToDeclaration[1]].location[1].fileName
        followed ==
            IF n.cls = "DeclarationReference"
            THEN AssignNodeToFile(heap,
                     [referenced EXCEPT !.files = GetOrCreateFile(@, declarationFile)],
                     n.refersToDeclaration[1], declarationFile, FALSE)
            ELSE referenced
        file == SwitchFile(n, currentFile)
        switched == [followed EXCEPT !.files = GetOrCreateFile(@, file)]
        added ==
            IF top \/ IsDeclaration(n)
            THEN [switched EXCEPT !.files = AddNode(@, file, node)]
            ELSE switched
    IN IF node \in st.assignedToFile THEN named
       ELSE AssignChildrenToFile(heap, added, n.children, 1, file)

-----------------------------------------------------------------------------
(* State after construction of a SimpleTypeCompiler *)

NoResult == [kind |-> "none"]

InitHist ==
    [ assigned |-> <<>>,              \* fresh assignments, in order
      lastAssign |-> None,            \* the latest assignDeclarationLocation call
      lastKernel |-> None,            \* the latest visit by compileType's visitor
      backendCalls |-> [t \in Types |-> 0],  \* calls of target.compileType per type
      returnedCacheable |-> {},       \* types the target returned a cacheable node for
      returnedUncacheable |-> {},     \* types the target returned another node for
      calledAfterCacheable |-> {},    \* types compiled again after a cacheable node
      flavours |-> {},                \* what the target has done so far
      roots |-> <<>>,                 \* the entry points' root nodes
      compileFileCalls |-> <<>>,      \* fileNames target.compileFile was called with
      output |-> None,                \* fileNames of the output returned
      program |-> 1,                  \* the program of the latest compilation
      calls |-> 0 ]                   \* compilations started from outside

\* The observations at the start of the calls-th compilation
StartHist(calls, program) == [InitHist EXCEPT !.calls = calls, !.program = program]

InitCompiler ==
    /\ programs = <<NewProgram>>
    /\ current = [outputLocation |-> None, program |-> 1]
    /\ stack = <<>>
    /\ result = NoResult
    /\ nodes = <<>>
    /\ errors = <<>>
    /\ annotated = {}
    /\ hist = InitHist

\* What an assignDeclarationLocation call leaves in the observations
RecordAssign(h, type, before, r) ==
    [h EXCEPT
        !.assigned = IF r.fresh
                     THEN Append(@, [type |-> type, base |-> r.base, location |-> r.location])
                     ELSE @,
        !.lastAssign = Some([type |-> type, before |-> before, location |-> r.location])]

-----------------------------------------------------------------------------
(* SpecAssign: assignDeclarationLocation called from outside any            *)
(* compilation, on the program the compiler is constructed with.            *)

InitAssign == InitCompiler

\* compiler.assignDeclarationLocation(type, location)
ApiAssignDeclarationLocation(type, location, suggested) ==
    LET program == programs[current.program]
        r == AssignDeclarationLocation(program, current, type, location, suggested)
    IN /\ stack = <<>>
       /\ programs' = [programs EXCEPT ![current.program] = r.program]
       /\ hist' = RecordAssign(hist, type, program.typeToDeclarationLocationCache[type], r)
       /\ UNCHANGED <<current, stack, result, nodes, errors, annotated>>

\* target.suggestDeclarationLocation is consulted only without an argument
NextAssign ==
    \E type \in Types, location \in LocationArgs :
        \E suggested \in (IF location = None THEN Suggestions ELSE {None}) :
            ApiAssignDeclarationLocation(type, location, suggested)

SpecAssign == InitAssign /\ [][NextAssign]_vars

-----------------------------------------------------------------------------
(* Spec: compileProgram driving a target.  The target is the caller's code:  *)
(* what its compileType, compileReference and suggestDeclarationLocation do  *)
(* is chosen anew at every call.                                             *)

MaxStack == 9

MaxEntries == 2

MaxCompilations == 1

\* compileProgram's entryPoints argument
EntryPointInputs ==
    LET Entry == [inputType : Types,
                  outputLocation : [fileName : FileNames, namespace : {None}, name : {None}]]
    IN UNION {[1..n -> Entry] : n \in 1..MaxEntries}

\* compileType's outputLocation argument when it is called from outside:
\* left out, so that the compilation runs without a current location
OutputLocationArgs == {None}

\* What the target's compileType does with a type: build a plain node, a plain
\* node marked doNotCache, or assign the type a declaration location and build
\* a declaration node; or throw
BackendFlavours == {"plain", "plainNoCache", "declaration", "throwError", "throwValue"}

\* How the target's compileType obtains a member's node: args.visit(step,
\* member), or visit.with(custom) whose visitor is
\* builder.reference(compiler.compileType(type, path))
BackendModes == {"visit", "compileType"}

Top == stack[Len(stack)]

Pop == SubSeq(stack, 1, Len(stack) - 1)

Value(node) == [kind |-> "value", node |-> node]

Throw(error) == [kind |-> "throw", error |-> error]

\* The innermost walkRecursive frame of a stack: its (path, type), if any
InnermostWalk(stk) ==
    LET walks == {i \in 1..Len(stk) : stk[i].op = "walk"}
    IN IF walks = {} THEN None
       ELSE LET i == CHOOSE i \in walks : \A j \in walks : j <= i
            IN Some([path |-> stk[i].path, type |-> stk[i].type])

\* A value being thrown: cls is "Error", "RangeError" or "value" (not an Error)
NewError(cls, origin, cause, stk) ==
    [ cls |-> cls, origin |-> origin, cause |-> cause, message |-> <<>>,
      thrownIn |-> InnermostWalk(stk), crossed |-> <<>>, names |-> None ]

\* a call that needs `n` more frames than the stack has room for
Overflows(n) == Len(stack) + n > MaxStack

WalkFrame(fn, type, path, pc) == [op |-> "walk", fn |-> fn, type |-> type, path |-> path, pc |-> pc]

\* compileType(type, path, outputLocation): withState, then walkRecursive
CompileTypeFrames(type, path) ==
    << [op |-> "compileType", prev |-> current, type |-> type, path |-> path],
       WalkFrame("kernel", type, path, "enter") >>

\* a withState that leaves the state it set in place
WithStateFinally_Skipped(prevState, state) == state

\* withState: `finally { this.current = prevState }`; what current is after
\* the call, given what it was before the call and during it
WithStateFinally(prevState, state) == prevState

\* the loop over entryPoints stopping after its first entry: the others are
\* not assigned before the compilation starts
AssignEntryPoints_FirstOnly(acc, cur, entryPoints, i) ==
    LET entry == entryPoints[1]
        before == acc.program.typeToDeclarationLocationCache[entry.inputType]
        r == AssignDeclarationLocation(acc.program, cur, entry.inputType,
                                       Some(entry.outputLocation), None)
    IN [ program |-> [r.program EXCEPT
                         !.entryPoints = MapSet(@, entry.inputType, r.location)],
         hist |-> RecordAssign(acc.hist, entry.inputType, before, r) ]

RECURSIVE AssignEntryPoints(_, _, _, _)
\* for (const entry of entryPoints) entryPoints.set(type, assignDeclarationLocation(...))
AssignEntryPoints(acc, cur, entryPoints, i) ==
    IF i > Len(entryPoints) THEN acc
    ELSE LET entry == entryPoints[i]
             before == acc.program.typeToDeclarationLocationCache[entry.inputType]
             r == AssignDeclarationLocation(acc.program, cur, entry.inputType,
                                            Some(entry.outputLocation), None)
         IN AssignEntryPoints(
                [ program |-> [r.program EXCEPT
                                   !.entryPoints = MapSet(@, entry.inputType, r.location)],
                  hist |-> RecordAssign(acc.hist, entry.inputType, before, r) ],
                cur, entryPoints, i + 1)

\* a compileProgram that goes on with the program of the compilation before
DefaultOutputProgram_Reused(earlier) == earlier[Len(earlier)]

\* compileProgram's default argument: outputProgram = new SimpleTypeCompilerProgram();
\* `earlier` are the programs made so far
DefaultOutputProgram(earlier) == NewProgram

\* compileProgram(entryPoints) up to its first compileType call
CompileProgramStart(entryPoints) ==
    LET id == Len(programs) + 1
        state == [outputLocation |-> None, program |-> id]
        assigned == AssignEntryPoints(
                        [ program |-> DefaultOutputProgram(programs),
                          hist |-> StartHist(hist.calls + 1, id) ],
                        state, entryPoints, 1)
    IN /\ stack = <<>>
       /\ programs' = Append(programs, assigned.program)
       /\ current' = state
       /\ stack' = << [ op |-> "compileProgram", prev |-> current, idx |-> 1,
                        assignedToFile |-> {}, outputFileNames |-> <<>> ] >>
       /\ result' = NoResult
       /\ hist' = assigned.hist
       /\ UNCHANGED <<nodes, errors, annotated>>

\* compiler.compileProgram(entryPoints)
CompileProgramCall(entryPoints) ==
    /\ hist.calls < MaxCompilations
    /\ CompileProgramStart(entryPoints)

\* compiler.compileType(type, [], outputLocation) called from outside any
\* compilation, on the program the compiler is constructed with
CompileTypeCall(type, outputLocation) ==
    /\ stack = <<>>
    /\ hist.calls < MaxCompilations
    /\ stack' = CompileTypeFrames(type, <<>>)
    /\ current' = [current EXCEPT !.outputLocation =
           IF outputLocation # None THEN outputLocation ELSE @]
    /\ result' = NoResult
    /\ hist' = StartHist(hist.calls + 1, current.program)
    /\ UNCHANGED <<programs, nodes, errors, annotated>>

\* for (const [type, location] of entryPoints) compileType(type, undefined, location)
CompileProgramNext ==
    LET program == programs[current.program]
        entry == program.entryPoints[Top.idx]
    IN /\ stack # <<>> /\ Top.op = "compileProgram" /\ result.kind = "none"
       /\ Top.idx <= Len(program.entryPoints)
       /\ stack' = stack \o CompileTypeFrames(entry.key, <<>>)
       /\ current' = [current EXCEPT !.outputLocation =
              Some([fileName |-> entry.value.fileName, namespace |-> entry.value.namespace])]
       /\ UNCHANGED <<programs, result, nodes, errors, annotated, hist>>

\* assignNodeToFile(node, getOrCreateFile(location.fileName), true)
CompileProgramAssign ==
    LET program == programs[current.program]
        entry == program.entryPoints[Top.idx]
        st == AssignNodeToFile(nodes,
                  [ assignedToFile |-> Top.assignedToFile,
                    outputFileNames |-> Top.outputFileNames,
                    files |-> GetOrCreateFile(program.files, entry.value.fileName) ],
                  result.node, entry.value.fileName, TRUE)
    IN /\ stack # <<>> /\ Top.op = "compileProgram" /\ result.kind = "value"
       /\ programs' = [programs EXCEPT ![current.program].files = st.files]
       /\ stack' = [stack EXCEPT ![Len(stack)] =
              [@ EXCEPT !.idx = @ + 1, !.assignedToFile = st.assignedToFile,
                        !.outputFileNames = st.outputFileNames]]
       /\ result' = NoResult
       /\ hist' = [hist EXCEPT !.roots = Append(@, result.node)]
       /\ UNCHANGED <<current, nodes, errors, annotated>>

\* for (const fileName of outputFileNames) target.compileFile(file); return output
CompileProgramFinish ==
    /\ stack # <<>> /\ Top.op = "compileProgram" /\ result.kind = "none"
    /\ Top.idx > Len(programs[current.program].entryPoints)
    /\ hist' = [hist EXCEPT !.compileFileCalls = @ \o Top.outputFileNames,
                            !.output = Some(Top.outputFileNames)]
    /\ current' = WithStateFinally(Top.prev, current)
    /\ stack' = Pop
    /\ result' = [kind |-> "output", program |-> current.program]
    /\ UNCHANGED <<programs, nodes, errors, annotated>>

\* withState's finally when compileProgram throws
CompileProgramThrow ==
    /\ stack # <<>> /\ Top.op = "compileProgram" /\ result.kind = "throw"
    /\ current' = WithStateFinally(Top.prev, current)
    /\ stack' = Pop
    /\ errors' = [errors EXCEPT ![result.error].crossed = Append(@, "compileProgram")]
    /\ UNCHANGED <<programs, result, nodes, annotated, hist>>

\* What a visit of (type, path) by compileType's visitor leaves in the observations
RecordKernel(h, type, path, branch, node, flavour) ==
    LET program == programs[current.program]
    IN [h EXCEPT !.lastKernel =
           Some([ type |-> type,
                  includes |-> Includes(path, type),
                  location |-> program.typeToDeclarationLocationCache[type],
                  cached |-> program.typeToAstNodeCache[type],
                  hasOutputLocation |-> current.outputLocation # None,
                  branch |-> branch, node |-> node, flavour |-> flavour ])]

KernelAt(branch) ==
    /\ stack # <<>> /\ Top.op = "walk" /\ Top.fn = "kernel" /\ Top.pc = "enter"
    /\ result.kind = "none"
    /\ KernelBranch(programs[current.program], current, Top.type, Top.path) = branch

\* if (cachedNode) return cachedNode
KernelCached ==
    LET node == programs[current.program].typeToAstNodeCache[Top.type][1]
    IN /\ KernelAt("cached")
       /\ stack' = Pop
       /\ result' = Value(node)
       /\ hist' = RecordKernel(hist, Top.type, Top.path, "cached", Some(node), "")
       /\ UNCHANGED <<programs, current, nodes, errors, annotated>>

\* return this.compileReference({from: current.outputLocation, to: {location}})
KernelCycleReference(flavour) ==
    LET location == programs[current.program].typeToDeclarationLocationCache[Top.type][1]
        r == CompileReference(nodes, [location |-> location, node |-> None], flavour)
    IN /\ KernelAt("reference")
       /\ nodes' = r.nodes
       /\ stack' = Pop
       /\ result' = Value(r.node)
       /\ hist' = [RecordKernel(hist, Top.type, Top.path, "reference", Some(r.node), flavour)
                      EXCEPT !.flavours = @ \cup {"reference:" \o flavour}]
       /\ current' = WithStateFinally(current,
                          [current EXCEPT !.outputLocation = current.outputLocation])
       /\ UNCHANGED <<programs, errors, annotated>>

\* throw new Error("Circular compilation: cannot create reference ...")
KernelCycleNoLocation ==
    /\ KernelAt("noLocation")
    /\ errors' = Append(errors, NewError("Error", "noLocation", None, stack))
    /\ result' = Throw(Len(errors) + 1)
    /\ stack' = [stack EXCEPT ![Len(stack)].pc = "called"]
    /\ hist' = RecordKernel(hist, Top.type, Top.path, "noLocation", None, "")
    /\ UNCHANGED <<programs, current, nodes, annotated>>

\* const result = this.target.compileType(args): the target starts on a type.
\* A "declaration" target first calls compiler.assignDeclarationLocation(type).
KernelDelegate(flavour, mode, suggested) ==
    LET type == Top.type
        program == programs[current.program]
        before == program.typeToDeclarationLocationCache[type]
        r == AssignDeclarationLocation(program, current, type, None, suggested)
        called == [RecordKernel(hist, type, Top.path, "delegate", None, flavour) EXCEPT
                      !.backendCalls[type] = @ + 1,
                      !.calledAfterCacheable =
                          IF type \in hist.returnedCacheable THEN @ \cup {type} ELSE @,
                      !.flavours = @ \cup {flavour, mode}]
        waiting == [stack EXCEPT ![Len(stack)].pc = "called"]
    IN /\ KernelAt("delegate")
       /\ Children(type) = <<>> => mode = "visit"
       /\ (flavour # "declaration" \/ before # None) => suggested = None
       /\ IF Overflows(1)
          THEN /\ errors' = Append(errors, NewError("RangeError", "call stack size", None, stack))
               /\ result' = Throw(Len(errors) + 1)
               /\ stack' = waiting
               /\ UNCHANGED <<programs, hist>>
          ELSE IF flavour \in {"throwError", "throwValue"}
          THEN /\ errors' = Append(errors,
                      NewError(IF flavour = "throwError" THEN "Error" ELSE "value",
                               "target", None, stack))
               /\ result' = Throw(Len(errors) + 1)
               /\ stack' = waiting
               /\ hist' = called
               /\ UNCHANGED programs
          ELSE /\ stack' = Append(waiting,
                      [ op |-> "backend", type |-> type, path |-> Top.path,
                        flavour |-> flavour, mode |-> mode,
                        location |-> IF flavour = "declaration" THEN Some(r.location) ELSE None,
                        idx |-> 1, results |-> <<>> ])
               /\ programs' = IF flavour = "declaration"
                              THEN [programs EXCEPT ![current.program] = r.program]
                              ELSE programs
               /\ hist' = IF flavour = "declaration"
                          THEN RecordAssign(called, type, before, r)
                          ELSE called
               /\ UNCHANGED <<errors, result>>
       /\ UNCHANGED <<current, nodes, annotated>>

\* The target visits the next member of the type it is compiling
BackendVisit ==
    LET type == Top.type
        index == Top.idx
        child == Children(type)[index]
        childPath == Concat(Top.path, NamedMemberStep(type, index - 1))
        frames == IF Top.mode = "visit"
                  THEN <<WalkFrame("kernel", child, childPath, "enter")>>
                  ELSE <<WalkFrame("custom", child, childPath, "called")>>
                           \o CompileTypeFrames(child, childPath)
    IN /\ stack # <<>> /\ Top.op = "backend" /\ result.kind = "none"
       /\ index <= Len(Children(type))
       /\ IF Overflows(Len(frames))
          THEN /\ errors' = Append(errors, NewError("RangeError", "call stack size", None, stack))
               /\ result' = Throw(Len(errors) + 1)
               /\ UNCHANGED stack
          ELSE /\ stack' = stack \o frames
               /\ UNCHANGED <<errors, result>>
       /\ UNCHANGED <<programs, current, nodes, annotated, hist>>

\* The member's node comes back to the target
BackendReceive ==
    /\ stack # <<>> /\ Top.op = "backend" /\ result.kind = "value"
    /\ stack' = [stack EXCEPT ![Len(stack)] =
           [@ EXCEPT !.idx = @ + 1, !.results = Append(@, result.node)]]
    /\ result' = NoResult
    /\ UNCHANGED <<programs, current, nodes, errors, annotated, hist>>

\* The node the target builds from the members' nodes
BackendNode(frame) ==
    CASE frame.flavour = "declaration" ->
             DeclarationNode(Some(frame.type), frame.location[1], frame.results)
      [] frame.flavour = "plainNoCache" ->
             DoNotCache(PlainNode(Some(frame.type), frame.results))
      [] OTHER -> PlainNode(Some(frame.type), frame.results)

\* The target's compileType returns its node
BackendReturn ==
    /\ stack # <<>> /\ Top.op = "backend" /\ result.kind = "none"
    /\ Top.idx > Len(Children(Top.type))
    /\ nodes' = Append(nodes, BackendNode(Top))
    /\ result' = Value(Len(nodes) + 1)
    /\ stack' = Pop
    /\ UNCHANGED <<programs, current, errors, annotated, hist>>

\* An exception leaves the target's compileType
BackendThrow ==
    /\ stack # <<>> /\ Top.op = "backend" /\ result.kind = "throw"
    /\ stack' = Pop
    /\ errors' = [errors EXCEPT ![result.error].crossed = Append(@, "backend")]
    /\ UNCHANGED <<programs, current, result, nodes, annotated, hist>>

\* compileType's visitor returns the target's node, caching it
WalkKernelReturn ==
    /\ stack # <<>> /\ Top.op = "walk" /\ Top.fn = "kernel" /\ Top.pc = "called"
    /\ result.kind = "value"
    /\ programs' = [programs EXCEPT ![current.program] =
           CacheResult(@, Top.type, nodes, result.node)]
    /\ hist' = [hist EXCEPT
           !.returnedCacheable = IF nodes[result.node].shouldCache THEN @ \cup {Top.type} ELSE @,
           !.returnedUncacheable = IF nodes[result.node].shouldCache THEN @ ELSE @ \cup {Top.type}]
    /\ stack' = Pop
    /\ UNCHANGED <<current, result, nodes, errors, annotated>>

\* The custom visitor: builder.reference(compiler.compileType(type, path))
WalkCustomReturn(flavour) ==
    LET n == nodes[result.node]
        r == CompileReference(nodes, [location |-> n.location[1], node |-> Some(result.node)],
                              flavour)
    IN /\ stack # <<>> /\ Top.op = "walk" /\ Top.fn = "custom" /\ result.kind = "value"
       /\ IF ~IsDeclaration(n)
          THEN \* Pass through non-declaration nodes
               /\ flavour = "plain"
               /\ stack' = Pop
               /\ UNCHANGED <<result, nodes, errors, hist>>
          ELSE IF current.outputLocation = None
          THEN \* Cannot build reference: no current location
               /\ flavour = "plain"
               /\ errors' = Append(errors, NewError("Error", "noLocation", None, stack))
               /\ result' = Throw(Len(errors) + 1)
               /\ UNCHANGED <<stack, nodes, hist>>
          ELSE /\ nodes' = r.nodes
               /\ result' = Value(r.node)
               /\ stack' = Pop
               /\ hist' = [hist EXCEPT !.flavours = @ \cup {"reference:" \o flavour}]
               /\ UNCHANGED errors
       /\ current' = IF IsDeclaration(n) /\ current.outputLocation # None
                     THEN WithStateFinally(current,
                              [current EXCEPT !.outputLocation = current.outputLocation])
                     ELSE current
       /\ UNCHANGED <<programs, annotated>>

\* walkRecursive appending the path to an error that has none yet
AnnotateError_Always(error, isAnnotated, path, type) ==
    IF error.cls # "value"
    THEN [error EXCEPT !.message = Append(@, [path |-> path, type |-> type])]
    ELSE error

\* if (e instanceof Error && !ALREADY_ANNOTATED_ERROR_WITH_PATH.has(e)) e.message += ...
AnnotateError(error, isAnnotated, path, type) ==
    IF error.cls # "value" /\ ~isAnnotated
    THEN [error EXCEPT !.message = Append(@, [path |-> path, type |-> type])]
    ELSE error

\* walkRecursive's catch
WalkCatch ==
    LET e == result.error
        marked == AnnotateError(errors[e], e \in annotated, Top.path, Top.type)
    IN /\ stack # <<>> /\ Top.op = "walk" /\ result.kind = "throw"
       /\ errors' = [errors EXCEPT ![e] = [marked EXCEPT !.crossed = Append(@, "walk")]]
       /\ annotated' = IF errors[e].cls # "value" THEN annotated \cup {e} ELSE annotated
       /\ stack' = Pop
       /\ UNCHANGED <<programs, current, result, nodes, hist>>

\* compileType returns: withState's finally
CompileTypeReturn ==
    /\ stack # <<>> /\ Top.op = "compileType" /\ result.kind = "value"
    /\ current' = WithStateFinally(Top.prev, current)
    /\ stack' = Pop
    /\ UNCHANGED <<programs, result, nodes, errors, annotated, hist>>

\* circularPart?.find(step => step.from.name)?.from.name
FirstNamedType(circularPart) ==
    LET named == IF circularPart = None THEN {}
                 ELSE {i \in 1..Len(circularPart[1]) : TypeNameOf(circularPart[1][i].from) # None}
    IN IF named = {} THEN None
       ELSE TypeNameOf(circularPart[1][CHOOSE i \in named : \A j \in named : i <= j].from)

\* compileType's catch: a RangeError about the call stack size becomes a
\* "Circular compilation" Error with the RangeError as its cause, which names
\* the first named type of getSubpathFrom(path, simpleType), `path` and
\* `simpleType` being this compileType's arguments
CompileTypeCatch ==
    LET e == result.error
        isStackOverflow == errors[e].cls = "RangeError" /\ errors[e].origin = "call stack size"
        passed == [errors EXCEPT ![e].crossed = Append(@, "compileType")]
    IN /\ stack # <<>> /\ Top.op = "compileType" /\ result.kind = "throw"
       /\ current' = WithStateFinally(Top.prev, current)
       /\ stack' = Pop
       /\ IF isStackOverflow
          THEN /\ errors' = Append(passed,
                      [NewError("Error", "circular", Some(e), Pop) EXCEPT
                          !.names = FirstNamedType(GetSubpathFrom(Top.path, Top.type))])
               /\ result' = Throw(Len(errors) + 1)
          ELSE /\ errors' = passed
               /\ UNCHANGED result
       /\ UNCHANGED <<programs, nodes, annotated, hist>>

\* the arguments of a compileReference call made from outside a compilation
ReferenceArgs ==
    { [ from |-> [fileName |-> f, namespace |-> None],
        to |-> [ location |-> [name |-> "Foo", fileName |-> "a.out", namespace |-> None],
                 node |-> None ] ] : f \in FileNames }

\* compiler.compileReference({ from, to }) called from outside any compilation:
\* withState({ ...current, outputLocation: from }, target.compileReference),
\* which returns a node or throws
CompileReferenceCall(referenceArgs, flavour) ==
    LET r == CompileReference(nodes, referenceArgs.to, flavour)
        state == [current EXCEPT !.outputLocation = Some(referenceArgs.from)]
    IN /\ stack = <<>>
       /\ hist.calls < MaxCompilations
       /\ IF flavour = "throwError"
          THEN /\ errors' = Append(errors, NewError("Error", "target", None, stack))
               /\ result' = Throw(Len(errors) + 1)
               /\ UNCHANGED nodes
          ELSE /\ nodes' = r.nodes
               /\ result' = Value(r.node)
               /\ UNCHANGED errors
       /\ current' = WithStateFinally(current, state)
       /\ hist' = [StartHist(hist.calls + 1, current.program) EXCEPT
                      !.flavours = {"compileReference:" \o flavour}]
       /\ UNCHANGED <<programs, stack, annotated>>

Init == InitCompiler

Next ==
    \/ \E entryPoints \in EntryPointInputs : CompileProgramCall(entryPoints)
    \/ \E type \in Types, outputLocation \in OutputLocationArgs :
           CompileTypeCall(type, outputLocation)
    \/ CompileProgramNext
    \/ CompileProgramAssign
    \/ CompileProgramFinish
    \/ CompileProgramThrow
    \/ KernelCached
    \/ \E flavour \in ReferenceFlavours : KernelCycleReference(flavour)
    \/ KernelCycleNoLocation
    \/ \E flavour \in BackendFlavours, mode \in BackendModes, suggested \in Suggestions :
           KernelDelegate(flavour, mode, suggested)
    \/ BackendVisit
    \/ BackendReceive
    \/ BackendReturn
    \/ BackendThrow
    \/ WalkKernelReturn
    \/ \E flavour \in ReferenceFlavours : WalkCustomReturn(flavour)
    \/ WalkCatch
    \/ CompileTypeReturn
    \/ CompileTypeCatch
    \/ \E referenceArgs \in ReferenceArgs, flavour \in ReferenceFlavours \cup {"throwError"} :
           CompileReferenceCall(referenceArgs, flavour)

Spec == Init /\ [][Next]_vars

-----------------------------------------------------------------------------
(* Claims about assignDeclarationLocation *)

DeclarationLocationOf(t) == programs[current.program].typeToDeclarationLocationCache[t]

\* C1: once assignDeclarationLocation has returned a location for a type, every
\* later call for that type returns that same location: a type is freshly
\* assigned at most once, and whatever a call returns is the location of the
\* type's one fresh assignment.
C1_IdempotentAssignment ==
    /\ \A i, j \in 1..Len(hist.assigned) :
          hist.assigned[i].type = hist.assigned[j].type => i = j
    /\ hist.lastAssign # None =>
          \E i \in 1..Len(hist.assigned) :
              /\ hist.assigned[i].type = hist.lastAssign[1].type
              /\ hist.assigned[i].location = hist.lastAssign[1].location

\* A call for an already assigned type, made after another type was assigned
\* later than it.
C1_Witness ==
    /\ hist.lastAssign # None
    /\ hist.lastAssign[1].before # None
    /\ \E i, j \in 1..Len(hist.assigned) :
          /\ i < j
          /\ hist.assigned[i].type = hist.lastAssign[1].type

\* C2: no two distinct types hold declaration locations with the same fileName,
\* namespace and name.
C2_UniqueLocations ==
    \A t1, t2 \in Types :
        (t1 # t2 /\ DeclarationLocationOf(t1) # None /\ DeclarationLocationOf(t2) # None)
            => DeclarationLocationOf(t1) # DeclarationLocationOf(t2)

\* How many of the first i fresh assignments went to the file, namespace and
\* base name of the i-th
RankAmongSameBase(i) ==
    Cardinality({j \in 1..i :
        /\ FileAndNamespaceEqual(hist.assigned[j].base, hist.assigned[i].base)
        /\ hist.assigned[j].base.name = hist.assigned[i].base.name})

\* C3: of the types assigned to one fileName and namespace with one base name B,
\* the first is named B and the k-th is named B followed by k-1.
C3_SuffixIsRank ==
    \A i \in 1..Len(hist.assigned) :
        hist.assigned[i].location.name =
            UniqueName(hist.assigned[i].base.name, RankAmongSameBase(i) - 1)

-----------------------------------------------------------------------------
(* Claims about compileType *)

\* The latest visit met a cycle at a type that has a declaration location
CycleAtLocatedType ==
    /\ hist.lastKernel # None
    /\ hist.lastKernel[1].includes
    /\ hist.lastKernel[1].location # None

\* C4 as stated: a visit of a type that has a declaration location and is on
\* the path does not invoke the target's compileType, and a node it returns is
\* a reference node referring to the type's declaration location.
C4_CycleYieldsReference ==
    CycleAtLocatedType =>
        LET k == hist.lastKernel[1]
        IN /\ k.branch # "delegate"
           /\ k.node # None =>
                 /\ IsReference(nodes[k.node[1]])
                 /\ nodes[k.node[1]].refersTo = k.location

\* C4 amended: a visit of a type that has a declaration location, is on the
\* path and has no cached node never invokes the target's compileType; it
\* throws when there is no current output location, and otherwise returns
\* compileReference's node, which is a reference node referring to the type's
\* declaration location whenever the target's compileReference built a plain
\* cacheable node or a reference node.
C4_CycleCompilesReference ==
    (CycleAtLocatedType /\ hist.lastKernel[1].cached = None) =>
        LET k == hist.lastKernel[1]
        IN /\ k.branch = (IF k.hasOutputLocation THEN "reference" ELSE "noLocation")
           /\ k.branch = "noLocation" => k.node = None
           /\ (k.branch = "reference" /\ k.flavour \in {"plain", "reference"}) =>
                 /\ k.node # None
                 /\ IsReference(nodes[k.node[1]])
                 /\ nodes[k.node[1]].refersTo = k.location

\* A cycle broken by a reference node built from the target's plain node
C4_Witness ==
    /\ CycleAtLocatedType
    /\ hist.lastKernel[1].branch = "reference"
    /\ hist.lastKernel[1].flavour = "plain"
    /\ IsReference(nodes[hist.lastKernel[1].node[1]])

RECURSIVE Subtree(_)
\* The nodes of the tree under node n: n and its chunks, recursively
Subtree(n) ==
    {n} \cup UNION {Subtree(nodes[n].children[i]) : i \in 1..Len(nodes[n].children)}

RECURSIVE Reachable(_)
\* Subtree, also following a reference node to the declaration node it holds
Reachable(n) ==
    {n} \cup UNION {Reachable(nodes[n].children[i]) : i \in 1..Len(nodes[n].children)}
        \cup (IF nodes[n].refersToDeclaration # None
              THEN Reachable(nodes[n].refersToDeclaration[1]) ELSE {})

\* The declaration nodes built for type t
DeclarationsOf(t) ==
    {n \in 1..Len(nodes) : IsDeclaration(nodes[n]) /\ nodes[n].type = Some(t)}

\* The first compilation is compileProgram with the self-referential type 1 as
\* its one entry point, the target so far declared every type it was given and
\* its compileReference built plain nodes or reference nodes
SelfReferentialScenario ==
    /\ hist.calls = 1 /\ hist.program # 1
    /\ Len(programs[hist.program].entryPoints) = 1
    /\ programs[hist.program].entryPoints[1].key = 1
    /\ hist.flavours \subseteq
           {"declaration", "visit", "compileType", "reference:plain", "reference:reference"}

Compiled == stack = <<>> /\ hist.program # 1 /\ hist.output # None

\* C6 as stated: by the end of a compileProgram, the target's compileType was
\* invoked at most once for every type whose node was not marked doNotCache.
C6_AtMostOncePerType ==
    Compiled =>
        \A t \in Types : t \notin hist.returnedUncacheable => hist.backendCalls[t] <= 1

\* C6 amended: once the target's compileType has returned a cacheable node for
\* a type, it is not invoked for that type again in that compilation.
C6_NeverAfterCached ==
    hist.calledAfterCacheable = {}

\* A type compiled once is met again on another path and answered from the cache
C6_Witness ==
    /\ hist.program # 1
    /\ hist.lastKernel # None
    /\ hist.lastKernel[1].branch = "cached"
    /\ hist.lastKernel[1].type \in hist.returnedCacheable
    /\ hist.backendCalls[hist.lastKernel[1].type] = 1

-----------------------------------------------------------------------------
(* Claims about compileProgram's files *)

\* The files of the latest compilation's program
CompiledFiles == programs[hist.program].files

\* How many times node n is in the node list of file number f
TimesInFile(f, n) ==
    Cardinality({i \in 1..Len(CompiledFiles[f].value.nodes) :
                    CompiledFiles[f].value.nodes[i] = n})

\* The declaration nodes reachable from the root nodes assigned so far
ReachableDeclarations ==
    {n \in UNION {Reachable(hist.roots[i]) : i \in 1..Len(hist.roots)} :
        IsDeclaration(nodes[n])}

\* C7: every declaration node reachable from an entry point's root node is in
\* the node list of the file named by its location.fileName, once, and in the
\* node list of no other file.
C7_DeclarationInItsFile ==
    \A n \in ReachableDeclarations :
        /\ MapHas(CompiledFiles, nodes[n].location[1].fileName)
        /\ \A f \in 1..Len(CompiledFiles) :
              TimesInFile(f, n) =
                  (IF CompiledFiles[f].key = nodes[n].location[1].fileName THEN 1 ELSE 0)

\* Two entry points have reached one declaration node, which lies in another
\* file than the second entry point
C7_Witness ==
    /\ Compiled
    /\ Len(hist.roots) = 2
    /\ \E n \in ReachableDeclarations :
          /\ n \in Reachable(hist.roots[1]) /\ n \in Reachable(hist.roots[2])
          /\ nodes[n].location[1].fileName # programs[hist.program].entryPoints[2].value.fileName

\* The file named fileName holds a reference to location
HasReference(fileName, location) ==
    /\ MapHas(CompiledFiles, fileName)
    /\ \E i \in 1..Len(MapGet(CompiledFiles, fileName).references) :
          MapGet(CompiledFiles, fileName).references[i].value = location

RECURSIVE ReferencesRecorded(_, _)
\* Every reference node at or under node n, n being contained in the file named
\* fileName, has its refersTo in the reference set of the file that contains it
ReferencesRecorded(n, fileName) ==
    LET node == nodes[n]
        inner == IF IsDeclaration(node) THEN node.location[1].fileName ELSE fileName
    IN /\ IsReference(node) => HasReference(fileName, node.refersTo[1])
       /\ \A i \in 1..Len(node.children) : ReferencesRecorded(node.children[i], inner)
       /\ node.refersToDeclaration # None =>
             ReferencesRecorded(node.refersToDeclaration[1],
                                nodes[node.refersToDeclaration[1]].location[1].fileName)

\* C8: for every reference node reachable from an entry point's root node, the
\* refersTo location is in the reference set of the file that contains it: the
\* file of its nearest enclosing declaration node, or the entry point's file.
C8_ReferencesRecorded ==
    Compiled =>
        \A i \in 1..Len(hist.roots) :
            ReferencesRecorded(hist.roots[i],
                               programs[hist.program].entryPoints[i].value.fileName)

\* The files that were given a node or a reference
TouchedFiles ==
    {CompiledFiles[f].key : f \in {g \in 1..Len(CompiledFiles) :
        CompiledFiles[g].value.nodes # <<>> \/ CompiledFiles[g].value.references # <<>>}}

\* C9: compileProgram calls the target's compileFile exactly once for, and
\* returns an output entry for, every file that was given a node or a reference.
C9_TouchedFilesCompiled ==
    Compiled =>
        \A fileName \in TouchedFiles :
            /\ Cardinality({i \in 1..Len(hist.compileFileCalls) :
                              hist.compileFileCalls[i] = fileName}) = 1
            /\ \E i \in 1..Len(hist.output[1]) : hist.output[1][i] = fileName

-----------------------------------------------------------------------------
(* Claims about walkRecursive's errors *)

\* How many walkRecursive frames error e has passed through
WalksCrossed(e) ==
    Cardinality({i \in 1..Len(errors[e].crossed) : errors[e].crossed[i] = "walk"})

\* C10: an Error has the path appended to its message at most once; once it has
\* passed through a walkRecursive frame it carries exactly one path, that of the
\* innermost frame it was thrown in, however many frames it passes through.
C10_AnnotatedOnce ==
    \A e \in 1..Len(errors) :
        errors[e].cls # "value" =>
            /\ Len(errors[e].message) <= 1
            /\ WalksCrossed(e) > 0 =>
                  /\ errors[e].thrownIn # None
                  /\ errors[e].message = <<errors[e].thrownIn[1]>>

\* An Error that has passed through three walkRecursive frames and a nested
\* compileType call
C10_Witness ==
    \E e \in 1..Len(errors) :
        /\ errors[e].cls = "Error"
        /\ WalksCrossed(e) >= 3
        /\ \E i \in 1..Len(errors[e].crossed) : errors[e].crossed[i] = "compileType"
        /\ Len(errors[e].message) = 1


-----------------------------------------------------------------------------
(* SimpleType values for the walker: a heap of types, each with the fields  *)
(* its kind declares.  An optional field that is absent is None.            *)

SimpleTypeBase(kind) ==
    [ kind |-> kind, types |-> None, members |-> None, call |-> None, ctor |-> None,
      typeParameters |-> None, indexNumber |-> None, indexString |-> None,
      parameters |-> None, returnType |-> None, target |-> None,
      typeArguments |-> None, instantiated |-> None, default |-> None,
      constraint |-> None, type |-> None ]

\*  1 string            2 number              3 string | number
\*  4 <T extends 3 = 1> 5 <T>(a: 1, b: 2) => 3
\*  6 interface<T> { (): 5; new(): 5; a: 1; b: 3; [n: number]: 2; [s: string]: 1 }
\*  7 [1, 2]            8 Array<7>            9 type Alias<T> = 8
\* 10 9<1, 2> instantiated as 6               11 Promise<3>
\* 12 enum { 13 }      13 enum member = 1    14 { self: 14 }
\* 15 class {}         16 method(a: 1): 2    17 6 & 15
TypeGraph ==
    << SimpleTypeBase("STRING"),
       SimpleTypeBase("NUMBER"),
       [SimpleTypeBase("UNION") EXCEPT !.types = Some(<<1, 2>>)],
       [SimpleTypeBase("GENERIC_PARAMETER") EXCEPT !.constraint = Some(2), !.default = Some(1)],
       [SimpleTypeBase("FUNCTION") EXCEPT !.typeParameters = Some(<<4>>),
            !.parameters = Some(<<1, 2>>), !.returnType = Some(3)],
       [SimpleTypeBase("INTERFACE") EXCEPT !.typeParameters = Some(<<4>>),
            !.call = Some(5), !.ctor = Some(5), !.members = Some(<<1, 3>>),
            !.indexNumber = Some(2), !.indexString = Some(1)],
       [SimpleTypeBase("TUPLE") EXCEPT !.members = Some(<<1, 2>>)],
       [SimpleTypeBase("ARRAY") EXCEPT !.type = Some(7)],
       [SimpleTypeBase("ALIAS") EXCEPT !.target = Some(7), !.typeParameters = Some(<<4>>)],
       [SimpleTypeBase("GENERIC_ARGUMENTS") EXCEPT !.target = Some(9),
            !.typeArguments = Some(<<1, 2>>), !.instantiated = Some(7)],
       [SimpleTypeBase("PROMISE") EXCEPT !.type = Some(3)],
       [SimpleTypeBase("ENUM") EXCEPT !.types = Some(<<13>>)],
       [SimpleTypeBase("ENUM_MEMBER") EXCEPT !.type = Some(1)],
       [SimpleTypeBase("OBJECT") EXCEPT !.members = Some(<<14>>)],
       SimpleTypeBase("CLASS"),
       [SimpleTypeBase("METHOD") EXCEPT !.parameters = Some(<<1>>), !.returnType = Some(2)],
       [SimpleTypeBase("INTERSECTION") EXCEPT !.types = Some(<<7, 15>>)] >>

GraphTypes == DOMAIN TypeGraph

\* a SimpleTypePathStep; index is None for the steps that have none
PathStep(from, step, index) == [step |-> step, from |-> from, index |-> index]

\* `optional ?? []`
OrEmpty(optional) == IF optional = None THEN <<>> ELSE optional[1]

-----------------------------------------------------------------------------
(* Kind-specific visitors.  Applying one yields the calls it makes to       *)
(* `visit`, in order, and the shape of what it returns: the array of the    *)
(* visit results, the one visit result, or undefined.                       *)

\* a list enumerator that visits the elements last to first
MapElements_Backwards(type, step, elems) ==
    [ returns |-> "array",
      calls |-> [i \in 1..Len(elems) |->
                    [ step |-> PathStep(type, step, Some(Len(elems) - i)),
                      type |-> elems[Len(elems) + 1 - i] ]] ]

\* elems.map((x, i) => visit({ from: type, index: i, step }, x))
MapElements(type, step, elems) ==
    [ returns |-> "array",
      calls |-> [i \in 1..Len(elems) |->
                    [step |-> PathStep(type, step, Some(i - 1)), type |-> elems[i]]] ]

\* `optional?.map(...)`: undefined when the sequence is absent
MapOptionalElements(type, step, optional) ==
    IF optional = None THEN [returns |-> "undefined", calls |-> <<>>]
    ELSE MapElements(type, step, optional[1])

\* a single-edge visitor that never takes its step
VisitField_Never(type, step, field) == [returns |-> "undefined", calls |-> <<>>]

\* `field && visit({ from: type, step }, field)`
VisitField(type, step, field) ==
    IF field = None THEN [returns |-> "undefined", calls |-> <<>>]
    ELSE [ returns |-> "visited",
           calls |-> <<[step |-> PathStep(type, step, None), type |-> field[1]]>> ]

CallableVisitors(name, t) ==
    CASE name = "mapTypeParameters" ->
             MapElements(t, "TYPE_PARAMETER", OrEmpty(TypeGraph[t].typeParameters))
      [] name = "mapParameters" ->
             MapElements(t, "PARAMETER", OrEmpty(TypeGraph[t].parameters))
      [] name = "return" -> VisitField(t, "RETURN", TypeGraph[t].returnType)

VariantTypesVisitors(name, t) ==
    CASE name = "mapVariants" -> MapElements(t, "VARIANT", TypeGraph[t].types[1])

ObjectLikeVisitors(name, t) ==
    CASE name = "mapTypeParameters" ->
             MapElements(t, "TYPE_PARAMETER", OrEmpty(TypeGraph[t].typeParameters))
      [] name = "callSignature" -> VisitField(t, "CALL_SIGNATURE", TypeGraph[t].call)
      [] name = "ctorSignature" -> VisitField(t, "CTOR_SIGNATURE", TypeGraph[t].ctor)
      [] name = "mapNamedMembers" ->
             MapElements(t, "NAMED_MEMBER", OrEmpty(TypeGraph[t].members))
      [] name = "numberIndex" -> VisitField(t, "NUMBER_INDEX", TypeGraph[t].indexNumber)
      [] name = "stringIndex" -> VisitField(t, "STRING_INDEX", TypeGraph[t].indexString)

\* Object.entries of a registry entry: its visitors in declaration order
VisitorNames(kind) ==
    CASE kind \in {"ENUM", "UNION", "INTERSECTION"} -> <<"mapVariants">>
      [] kind \in {"INTERFACE", "OBJECT", "CLASS"} ->
             << "mapTypeParameters", "callSignature", "ctorSignature",
                "mapNamedMembers", "numberIndex", "stringIndex" >>
      [] kind \in {"FUNCTION", "METHOD"} -> <<"mapTypeParameters", "mapParameters", "return">>
      [] kind = "GENERIC_ARGUMENTS" -> <<"aliased", "genericTarget", "mapGenericArguments">>
      [] kind = "GENERIC_PARAMETER" -> <<"typeParameterConstraint", "typeParameterDefault">>
      [] kind = "TUPLE" -> <<"mapIndexedMembers">>
      [] kind = "ALIAS" -> <<"aliased", "mapTypeParameters">>
      [] kind = "ARRAY" -> <<"numberIndex">>
      [] kind = "PROMISE" -> <<"awaited">>
      [] kind = "ENUM_MEMBER" -> <<"aliased">>
      [] OTHER -> <<>>

\* `type.kind in Visitor`
KindInVisitor(kind) == VisitorNames(kind) # <<>>

\* KindVisitors[kind][name]({ type, path, visit })
KindVisitors(name, t) ==
    LET type == TypeGraph[t]
        kind == type.kind
    IN CASE kind \in {"ENUM", "UNION", "INTERSECTION"} -> VariantTypesVisitors(name, t)
         [] kind \in {"INTERFACE", "OBJECT", "CLASS"} -> ObjectLikeVisitors(name, t)
         [] kind \in {"FUNCTION", "METHOD"} -> CallableVisitors(name, t)
         [] kind = "GENERIC_ARGUMENTS" /\ name = "aliased" ->
                VisitField(t, "ALIASED", type.instantiated)
         [] kind = "GENERIC_ARGUMENTS" /\ name = "genericTarget" ->
                VisitField(t, "GENERIC_TARGET", type.target)
         [] kind = "GENERIC_ARGUMENTS" /\ name = "mapGenericArguments" ->
                MapElements(t, "GENERIC_ARGUMENT", type.typeArguments[1])
         [] kind = "GENERIC_PARAMETER" /\ name = "typeParameterConstraint" ->
                VisitField(t, "TYPE_PARAMETER_CONSTRAINT", type.constraint)
         [] kind = "GENERIC_PARAMETER" /\ name = "typeParameterDefault" ->
                VisitField(t, "TYPE_PARAMETER_DEFAULT", type.default)
         [] kind = "TUPLE" /\ name = "mapIndexedMembers" ->
                MapOptionalElements(t, "INDEXED_MEMBER", type.members)
         [] kind = "ALIAS" /\ name = "aliased" -> VisitField(t, "ALIASED", type.target)
         [] kind = "ALIAS" /\ name = "mapTypeParameters" ->
                MapElements(t, "TYPE_PARAMETER", OrEmpty(type.typeParameters))
         [] kind = "ARRAY" /\ name = "numberIndex" -> VisitField(t, "NUMBER_INDEX", type.type)
         [] kind = "PROMISE" /\ name = "awaited" -> VisitField(t, "AWAITED", type.type)
         [] kind = "ENUM_MEMBER" /\ name = "aliased" -> VisitField(t, "ALIASED", type.type)

-----------------------------------------------------------------------------
(* The walker: walkRecursive, Cyclical.preventCycles, walkDepthFirst,       *)
(* mapAnyStep and mapJsonStep.  A walk threads `acc`: the log of the        *)
(* invocations of the caller's callbacks so far, the outcome of the latest  *)
(* call (a returned value or a throw), and whether that outcome is a throw, *)
(* that is, whether the stack is being unwound.                             *)

Undefined == [js |-> "undefined"]

JsArray(items) == [js |-> "array", items |-> items]

\* what the caller's leaf visitor returns: a value made of its arguments
Visited(path, type) == [js |-> "visited", path |-> path, type |-> type]

\* new Cyclical(cycle)
Cyclical(cycle) == [js |-> "Cyclical", cycle |-> cycle]

Return(value) == [kind |-> "value", value |-> value]

\* a throw; marked: the error is in ALREADY_ANNOTATED_ERROR_WITH_PATH
Raise(error, marked) == [kind |-> "throw", error |-> error, marked |-> marked]

NewAcc == [log |-> <<>>, outcome |-> Return(Undefined), thrown |-> FALSE]

Thrown(acc) == acc.thrown

\* one invocation of a callback of the caller
Invocation(fn, path, type) == [fn |-> fn, path |-> path, type |-> type]

\* names for which name.startsWith("map")
StartsWithMap(name) ==
    name \in { "mapTypeParameters", "mapParameters", "mapVariants", "mapNamedMembers",
               "mapGenericArguments", "mapIndexedMembers" }

\* a mapJsonStep that applies every visitor of the kind
JsonVisitorNames_All(kind) == VisitorNames(kind)

\* the visitors mapJsonStep applies for a kind, in argument order
JsonVisitorNames(kind) ==
    CASE kind \in {"ENUM", "UNION", "INTERSECTION"} -> <<"mapVariants">>
      [] kind \in {"INTERFACE", "OBJECT", "CLASS"} ->
             <<"mapNamedMembers", "numberIndex", "stringIndex">>
      [] kind = "TUPLE" -> <<"mapIndexedMembers">>
      [] kind = "ALIAS" -> <<"aliased">>
      [] kind = "ARRAY" -> <<"numberIndex">>
      [] kind = "GENERIC_ARGUMENTS" -> <<"aliased">>
      [] OTHER -> <<>>

\* the cases of mapJsonStep that return the visitor's result as it is
JsonReturnsVisitorResult(kind) == kind \in {"ENUM", "UNION", "INTERSECTION", "TUPLE"}

RECURSIVE WalkRecursive(_, _, _, _)
RECURSIVE CallVisitor(_, _, _, _)
RECURSIVE VisitEach(_, _, _, _, _)
RECURSIVE VisitNext(_, _, _, _, _, _)
RECURSIVE ApplyKindVisitor(_, _, _, _, _)
RECURSIVE MapAnyStepFrom(_, _, _, _, _, _)
RECURSIVE MapJsonStepFrom(_, _, _, _, _, _)

\* what a kind-specific visitor returns once its calls of `visit` have
\* returned: the acc after it and the value returned
KindVisitorReturn(v, run) ==
    [ acc |-> run.acc,
      visited |-> CASE v.returns = "undefined" -> Undefined
                    [] v.returns = "array" ->
                           JsArray([i \in 1..Len(run.results) |-> run.results[i].value])
                    [] v.returns = "visited" -> run.results[1].value ]

\* the calls `visit(step, childType)` of the kind-specific visitor v from the
\* i-th on, then its return: visit = makeVisitChildFn(path, type, fn), so each
\* call is a walkRecursive of the child path.  `results` collects what the
\* calls returned.
VisitEach(run, v, i, path, visitor) ==
    IF i > Len(v.calls) THEN KindVisitorReturn(v, run)
    ELSE VisitNext(WalkRecursive(run.acc, Concat(path, v.calls[i].step), v.calls[i].type,
                                 visitor),
                   run, v, i, path, visitor)

\* what follows the i-th call of `visit`: a throw ends the visitor, a return
\* is collected and the next call made
VisitNext(acc, run, v, i, path, visitor) ==
    IF Thrown(acc) THEN [acc |-> acc, visited |-> Undefined]
    ELSE VisitEach([acc |-> acc, results |-> Append(run.results, acc.outcome)],
                   v, i + 1, path, visitor)

\* Visitor[kind][name]({ type, path, visit }): the acc after it and what it returned
ApplyKindVisitor(acc, name, t, path, visitor) ==
    VisitEach([acc |-> acc, results |-> <<>>], KindVisitors(name, t), 1, path, visitor)

\* mapAnyStep: undefined is skipped, the array of a map* visitor is spread,
\* anything else is pushed
MapAnyStepPush(results, name, r) ==
    IF Thrown(r.acc) THEN results
    ELSE IF r.visited.js = "undefined" THEN results
    ELSE IF StartsWithMap(name) /\ r.visited.js = "array" THEN results \o r.visited.items
    ELSE Append(results, r.visited)

\* the rest of mapAnyStep's loop after the visitor Head(names) returned r
MapAnyStepRest(r, results, names, t, path, visitor) ==
    IF Thrown(r.acc) THEN r.acc
    ELSE MapAnyStepFrom(r.acc, MapAnyStepPush(results, Head(names), r), Tail(names),
                        t, path, visitor)

\* mapAnyStep's loop over Object.entries(visitors)
MapAnyStepFrom(acc, results, names, t, path, visitor) ==
    IF names = <<>> THEN [acc EXCEPT !.outcome = Return(JsArray(results))]
    ELSE MapAnyStepRest(ApplyKindVisitor(acc, Head(names), t, path, visitor),
                        results, names, t, path, visitor)

\* Visitor.mapAnyStep({ type, path, visit })
MapAnyStep(acc, t, path, visitor) ==
    IF KindInVisitor(TypeGraph[t].kind)
    THEN MapAnyStepFrom(acc, <<>>, VisitorNames(TypeGraph[t].kind), t, path, visitor)
    ELSE [acc EXCEPT !.outcome = Return(JsArray(<<>>))]

\* array(...values): values.flatMap(v => (v === undefined ? [] : v))
MapJsonStepPush(results, r) ==
    IF Thrown(r.acc) THEN results
    ELSE IF r.visited.js = "undefined" THEN results
    ELSE IF r.visited.js = "array" THEN results \o r.visited.items
    ELSE Append(results, r.visited)

\* the rest of array's arguments after the visitor Head(names) returned r
MapJsonStepRest(r, results, names, t, path, visitor) ==
    IF Thrown(r.acc) THEN r.acc
    ELSE MapJsonStepFrom(r.acc, MapJsonStepPush(results, r), Tail(names), t, path, visitor)

\* array(...): the visitors named are applied in argument order
MapJsonStepFrom(acc, results, names, t, path, visitor) ==
    IF names = <<>> THEN [acc EXCEPT !.outcome = Return(JsArray(results))]
    ELSE MapJsonStepRest(ApplyKindVisitor(acc, Head(names), t, path, visitor),
                         results, names, t, path, visitor)

\* `return Visitor[kind].name(args)`: the visitor's result as it is
ReturnVisited(r) ==
    IF Thrown(r.acc) THEN r.acc ELSE [r.acc EXCEPT !.outcome = Return(r.visited)]

\* Visitor.mapJsonStep({ type, path, visit })
MapJsonStep(acc, t, path, visitor) ==
    IF JsonReturnsVisitorResult(TypeGraph[t].kind)
    THEN ReturnVisited(ApplyKindVisitor(acc, JsonVisitorNames(TypeGraph[t].kind)[1],
                                        t, path, visitor))
    ELSE MapJsonStepFrom(acc, <<>>, JsonVisitorNames(TypeGraph[t].kind), t, path, visitor)

\* a callback of the caller: it logs its invocation; the leaf visitors return
\* a value, "throws" throws an Error, and the callbacks of a depth-first walk
\* return nothing, the throwAt-th invocation throwing instead
Callback(acc, fn, path, type, throws) ==
    [ log |-> Append(acc.log, Invocation(fn, path, type)),
      outcome |-> IF throws THEN Raise([cls |-> "Error", message |-> <<>>], FALSE)
                  ELSE IF fn = "leaf" THEN Return(Visited(path, type))
                  ELSE Return(Undefined),
      thrown |-> throws ]

\* visitors.before?.(args) / visitors.after?.(args)
OptionalCallback(acc, fn, path, type, visitor) ==
    IF visitor[fn]
    THEN Callback(acc, fn, path, type, Len(acc.log) + 1 = visitor.throwAt)
    ELSE acc

\* traverse(args), traverse being mapJsonStep or (the default) mapAnyStep
Traverse(acc, path, type, visitor) ==
    IF Thrown(acc) THEN acc
    ELSE IF visitor.traverse = Some("mapJsonStep") THEN MapJsonStep(acc, type, path, visitor)
    ELSE MapAnyStep(acc, type, path, visitor)

\* a function without a return statement returns undefined
ReturnUndefined(acc) ==
    IF Thrown(acc) THEN acc ELSE [acc EXCEPT !.outcome = Return(Undefined)]

\* what follows traverse(args): after?.(args), unless traverse threw
AfterTraverse(acc, path, type, visitor) ==
    IF Thrown(acc) THEN acc
    ELSE ReturnUndefined(OptionalCallback(acc, "after", path, type, visitor))

\* a depth-first visitor that calls `after` before it traverses
DepthFirstVisitor_AfterFirst(acc, path, type, visitor) ==
    ReturnUndefined(
        Traverse(AfterTraverse(OptionalCallback(acc, "before", path, type, visitor),
                               path, type, visitor),
                 path, type, visitor))

\* walkDepthFirst's visitor: before?.(args); traverse(args); after?.(args)
DepthFirstVisitor(acc, path, type, visitor) ==
    AfterTraverse(Traverse(OptionalCallback(acc, "before", path, type, visitor),
                           path, type, visitor),
                  path, type, visitor)

\* Cyclical.preventCycles(fn)(args)
PreventCycles(acc, path, type, visitor) ==
    LET cycle == GetSubpathFrom(path, type)
    IN IF cycle # None
       THEN [acc EXCEPT !.outcome = Return(Cyclical(cycle[1]))]
       ELSE Callback(acc, visitor.fn, path, type, visitor.fn = "throws")

\* fn(args)
CallVisitor(acc, path, type, visitor) ==
    IF visitor.fn = "walkDepthFirst" THEN DepthFirstVisitor(acc, path, type, visitor)
    ELSE IF visitor.preventCycles THEN PreventCycles(acc, path, type, visitor)
    ELSE Callback(acc, visitor.fn, path, type, visitor.fn = "throws")

\* walkRecursive's catch: annotate the error once and rethrow it
WalkRecursiveCatch(acc, path, type) ==
    IF Thrown(acc)
    THEN [acc EXCEPT !.outcome =
             Raise(AnnotateError(@.error, @.marked, path, type),
                   @.marked \/ @.error.cls # "value")]
    ELSE acc

\* the earlier draft of walkRecursive, which checked for a cycle itself
WalkRecursive_CycleCheck(acc, path, type, visitor) ==
    LET cycle == GetSubpathFrom(path, type)
    IN IF cycle # None
       THEN [acc EXCEPT !.outcome = Return(Cyclical(cycle[1]))]
       ELSE WalkRecursiveCatch(CallVisitor(acc, path, type, visitor), path, type)

\* walkRecursive(path, type, fn)
WalkRecursive(acc, path, type, visitor) ==
    WalkRecursiveCatch(CallVisitor(acc, path, type, visitor), path, type)

\* walkDepthFirst(path, type, { before, after, traverse })
WalkDepthFirst(acc, path, type, visitors) ==
    ReturnUndefined(WalkRecursive(acc, path, type, visitors))

-----------------------------------------------------------------------------
(* The edges of the type graph, read off the fields of each type            *)

\* the steps from t to the types its fields hold
OutgoingEdges(t) ==
    LET type == TypeGraph[t]
        Many(step, optional) ==
            { [step |-> PathStep(t, step, Some(i - 1)), type |-> OrEmpty(optional)[i]] :
                  i \in 1..Len(OrEmpty(optional)) }
        One(step, optional) ==
            IF optional = None THEN {}
            ELSE {[step |-> PathStep(t, step, None), type |-> optional[1]]}
    IN Many("VARIANT", type.types)
       \cup Many(IF type.kind = "TUPLE" THEN "INDEXED_MEMBER" ELSE "NAMED_MEMBER", type.members)
       \cup One("CALL_SIGNATURE", type.call)
       \cup One("CTOR_SIGNATURE", type.ctor)
       \cup Many("TYPE_PARAMETER", type.typeParameters)
       \cup One("NUMBER_INDEX", type.indexNumber)
       \cup One("STRING_INDEX", type.indexString)
       \cup Many("PARAMETER", type.parameters)
       \cup One("RETURN", type.returnType)
       \cup One(IF type.kind = "ALIAS" THEN "ALIASED" ELSE "GENERIC_TARGET", type.target)
       \cup Many("GENERIC_ARGUMENT", type.typeArguments)
       \cup One("ALIASED", type.instantiated)
       \cup One("TYPE_PARAMETER_CONSTRAINT", type.constraint)
       \cup One("TYPE_PARAMETER_DEFAULT", type.default)
       \cup One(CASE type.kind = "ARRAY" -> "NUMBER_INDEX"
                  [] type.kind = "PROMISE" -> "AWAITED"
                  [] OTHER -> "ALIASED", type.type)

Successors(t) == {edge.type : edge \in OutgoingEdges(t)}

RECURSIVE TypesReachableFrom(_)
\* the types reachable from a set of types, these included
TypesReachableFrom(types) ==
    LET more == types \cup UNION {Successors(t) : t \in types}
    IN IF more = types THEN types ELSE TypesReachableFrom(more)

\* no type reachable from t lies on a cycle
Acyclic(t) ==
    \A u \in TypesReachableFrom({t}) : u \notin TypesReachableFrom(Successors(u))

-----------------------------------------------------------------------------
(* SpecWalk: the walker's functions called from outside, one call at a time. *)
(* hist holds the latest call and the invocations of the caller's callbacks *)
(* it made, result what it returned or threw.                               *)

MaxPathLen == 2

MaxThrowAt == 4

RECURSIVE PathsOfLength(_)
\* the paths of n connected steps through the type graph, with their end types
PathsOfLength(n) ==
    IF n = 0 THEN {[path |-> <<>>, end |-> t] : t \in GraphTypes}
    ELSE UNION { { [path |-> Concat(p.path, edge.step), end |-> edge.type] :
                       edge \in OutgoingEdges(p.end) } : p \in PathsOfLength(n - 1) }

PathInputs == {p.path : p \in UNION {PathsOfLength(n) : n \in 0..MaxPathLen}}

\* the visitors a caller passes: one that returns a value, one that returns
\* nothing and one that throws, each as it is or wrapped by preventCycles
LeafVisitors ==
    {[fn |-> fn, preventCycles |-> wrapped] : fn \in {"leaf", "void", "throws"}, wrapped \in BOOLEAN}

\* the visitors of walkDepthFirst: callbacks present or not, a traversal or
\* the default, and the callback invocation that throws (0: none)
DepthFirstVisitors ==
    { [ fn |-> "walkDepthFirst", preventCycles |-> FALSE, before |-> before, after |-> after,
        traverse |-> traverse, throwAt |-> throwAt ] :
          before \in BOOLEAN, after \in BOOLEAN,
          traverse \in {None, Some("mapAnyStep"), Some("mapJsonStep")},
          throwAt \in 0..MaxThrowAt }

NoCall == [op |-> "none", log |-> <<>>]

WalkerCall(op, path, type, visitor, name, acc) ==
    [op |-> op, path |-> path, type |-> type, visitor |-> visitor, name |-> name, log |-> acc.log]

InitWalk ==
    /\ programs = <<NewProgram>>
    /\ current = [outputLocation |-> None, program |-> 1]
    /\ stack = <<>>
    /\ result = NoResult
    /\ nodes = <<>>
    /\ errors = <<>>
    /\ annotated = {}
    /\ hist = NoCall

\* walkRecursive(path, type, fn)
WalkRecursiveCall ==
    /\ hist = NoCall
    /\ \E path \in PathInputs, type \in GraphTypes, visitor \in LeafVisitors :
           LET acc == WalkRecursive(NewAcc, path, type, visitor)
           IN /\ hist' = WalkerCall("walkRecursive", path, type, visitor, None, acc)
              /\ result' = acc.outcome
    /\ UNCHANGED <<programs, current, stack, nodes, errors, annotated>>

\* Cyclical.preventCycles(fn)({ path, type, visit })
PreventCyclesCall ==
    /\ hist = NoCall
    /\ \E path \in PathInputs, type \in GraphTypes, visitor \in LeafVisitors :
           LET acc == PreventCycles(NewAcc, path, type, visitor)
           IN /\ hist' = WalkerCall("preventCycles", path, type, visitor, None, acc)
              /\ result' = acc.outcome
    /\ UNCHANGED <<programs, current, stack, nodes, errors, annotated>>

\* walkDepthFirst(path, type, visitors) on a type graph without cycles
WalkDepthFirstCall ==
    /\ hist = NoCall
    /\ \E type \in GraphTypes, visitors \in DepthFirstVisitors :
           LET acc == WalkDepthFirst(NewAcc, <<>>, type, visitors)
           IN /\ Acyclic(type)
              /\ hist' = WalkerCall("walkDepthFirst", <<>>, type, visitors, None, acc)
              /\ result' = acc.outcome
    /\ UNCHANGED <<programs, current, stack, nodes, errors, annotated>>

\* Visitor.mapAnyStep(args) inside a visitor walking (path, type)
MapAnyStepCall ==
    /\ hist = NoCall
    /\ \E path \in PathInputs, type \in GraphTypes, visitor \in LeafVisitors :
           LET acc == MapAnyStep(NewAcc, type, path, visitor)
           IN /\ hist' = WalkerCall("mapAnyStep", path, type, visitor, None, acc)
              /\ result' = acc.outcome
    /\ UNCHANGED <<programs, current, stack, nodes, errors, annotated>>

\* Visitor.mapJsonStep(args) inside a visitor walking (path, type)
MapJsonStepCall ==
    /\ hist = NoCall
    /\ \E path \in PathInputs, type \in GraphTypes, visitor \in LeafVisitors :
           LET acc == MapJsonStep(NewAcc, type, path, visitor)
           IN /\ hist' = WalkerCall("mapJsonStep", path, type, visitor, None, acc)
              /\ result' = acc.outcome
    /\ UNCHANGED <<programs, current, stack, nodes, errors, annotated>>

VisitorNamesOf(type) ==
    {VisitorNames(TypeGraph[type].kind)[i] : i \in 1..Len(VisitorNames(TypeGraph[type].kind))}

\* Visitor[type.kind][name](args) inside a visitor walking (path, type)
KindVisitorCall ==
    /\ hist = NoCall
    /\ \E path \in PathInputs, type \in GraphTypes, visitor \in LeafVisitors :
           \E name \in VisitorNamesOf(type) :
               LET r == ApplyKindVisitor(NewAcc, name, type, path, visitor)
               IN /\ hist' = WalkerCall("kindVisitor", path, type, visitor, Some(name), r.acc)
                  /\ result' = IF Thrown(r.acc) THEN r.acc.outcome ELSE Return(r.visited)
    /\ UNCHANGED <<programs, current, stack, nodes, errors, annotated>>

NextWalk ==
    \/ WalkRecursiveCall
    \/ PreventCyclesCall
    \/ WalkDepthFirstCall
    \/ MapAnyStepCall
    \/ MapJsonStepCall
    \/ KindVisitorCall

SpecWalk == InitWalk /\ [][NextWalk]_vars

-----------------------------------------------------------------------------
(* SpecTwin: the same sequence of assignDeclarationLocation calls made on   *)
(* two fresh programs.  The second run is given other type objects: the     *)
(* types renamed by a permutation that keeps each call's base name.         *)

MaxCalls == 3

\* renamings of the types under which every inferred name stays what it was
TypeRenamings ==
    { perm \in [Types -> Types] :
          /\ \A t, u \in Types : perm[t] = perm[u] => t = u
          /\ \A t \in Types : InferTypeName(perm[t]) = InferTypeName(t) }

InitTwin ==
    /\ programs = <<NewProgram, NewProgram>>
    /\ current = [outputLocation |-> None, program |-> 1]
    /\ stack = <<>>
    /\ result = NoResult
    /\ nodes = <<>>
    /\ errors = <<>>
    /\ annotated = {}
    /\ hist \in {[perm |-> perm, first |-> <<>>, second |-> <<>>] : perm \in TypeRenamings}

\* compiler.assignDeclarationLocation(type, location) in the first run and
\* with the renamed type in the second
TwinAssignDeclarationLocation(type, location, suggested) ==
    LET first == AssignDeclarationLocation(programs[1], current, type, location, suggested)
        second == AssignDeclarationLocation(programs[2], current, hist.perm[type],
                                            location, suggested)
    IN /\ Len(hist.first) < MaxCalls
       /\ programs' = <<first.program, second.program>>
       /\ hist' = [hist EXCEPT !.first = Append(@, first.location),
                               !.second = Append(@, second.location)]
       /\ UNCHANGED <<current, stack, result, nodes, errors, annotated>>

NextTwin ==
    \E type \in Types, location \in LocationArgs :
        \E suggested \in (IF location = None THEN Suggestions ELSE {None}) :
            TwinAssignDeclarationLocation(type, location, suggested)

SpecTwin == InitTwin /\ [][NextTwin]_vars

-----------------------------------------------------------------------------
(* SpecAdapt: toSimpleType on the host's type handles with one cache.  The  *)
(* host types are Types, each referring to MemberTypes of it.  Here `nodes` *)
(* is the heap of SimpleType objects (placeholders and proxies), `stack`    *)
(* the resolveType calls in progress, and hist holds the cache and what the *)
(* adaptations stored and returned.                                         *)

\* a cache that is never found to hold the type
CacheHas_Never(cache, type) == FALSE

\* options.cache.has(type)
CacheHas(cache, type) == cache[type] # None

\* options.cache.get(type)!
CacheGet(cache, type) == cache[type][1]

\* const placeholder = {} as SimpleType, and for a lazy one its proxy
NewPlaceholder(type, lazy) ==
    [ host |-> type, lazy |-> lazy, didResolve |-> FALSE, assigned |-> 0,
      frozen |-> FALSE, members |-> <<>> ]

\* a call of resolveType(target) in progress: toSimpleTypeInternal is at
\* member number `next` of the host type
ResolveFrame(type, target, eager, ensure) ==
    [ op |-> "resolveType", type |-> type, target |-> target, eager |-> eager,
      ensure |-> ensure, next |-> 1, members |-> <<>> ]

InitAdapt ==
    /\ programs = <<NewProgram>>
    /\ current = [outputLocation |-> None, program |-> 1]
    /\ stack = <<>>
    /\ result = NoResult
    /\ nodes = <<>>
    /\ errors = <<>>
    /\ annotated = {}
    /\ hist = [ cache |-> [t \in Types |-> None],
                stored |-> [t \in Types |-> <<>>],
                returned |-> [t \in Types |-> {}] ]

\* options.cache.set(type, placeholder) with a new placeholder
StoreNew(h, type) ==
    [h EXCEPT !.cache[type] = Some(Len(nodes) + 1),
              !.stored[type] = Append(@, Len(nodes) + 1)]

\* an adaptation handing `instance` back for `type`
RecordReturn(h, type, instance) == [h EXCEPT !.returned[type] = @ \cup {instance}]

\* toSimpleType(type, checker, options): the type is in the cache
ToSimpleTypeHit(type) ==
    /\ stack = <<>>
    /\ CacheHas(hist.cache, type)
    /\ hist' = RecordReturn(hist, type, CacheGet(hist.cache, type))
    /\ result' = Return(CacheGet(hist.cache, type))
    /\ UNCHANGED <<programs, current, stack, nodes, errors, annotated>>

\* toSimpleType(type, checker, { eager: true }): cache the placeholder, then
\* resolve the type into it
ToSimpleTypeEager(type) ==
    /\ stack = <<>>
    /\ ~CacheHas(hist.cache, type)
    /\ nodes' = Append(nodes, NewPlaceholder(type, FALSE))
    /\ hist' = StoreNew(hist, type)
    /\ stack' = <<ResolveFrame(type, Len(nodes) + 1, TRUE, FALSE)>>
    /\ result' = NoResult
    /\ UNCHANGED <<programs, current, errors, annotated>>

\* toSimpleType(type, checker, options) without eager: cache and return a proxy
ToSimpleTypeLazy(type) ==
    /\ stack = <<>>
    /\ ~CacheHas(hist.cache, type)
    /\ nodes' = Append(nodes, NewPlaceholder(type, TRUE))
    /\ hist' = RecordReturn(StoreNew(hist, type), type, Len(nodes) + 1)
    /\ result' = Return(Len(nodes) + 1)
    /\ UNCHANGED <<programs, current, stack, errors, annotated>>

\* a property of a proxy is read: ensureResolved()
EnsureResolved(instance) ==
    /\ stack = <<>>
    /\ nodes[instance].lazy /\ ~nodes[instance].didResolve
    /\ stack' = <<ResolveFrame(nodes[instance].host, instance, FALSE, TRUE)>>
    /\ result' = NoResult
    /\ UNCHANGED <<programs, current, nodes, errors, annotated, hist>>

\* how often the model lets one placeholder be populated
MaxPopulations == 2

\* the proxy's get trap at work for Symbol.toStringTag: `return target[p]`,
\* which runs the getter defined on the placeholder, is still to come
GetterFrame(target) == [op |-> "toStringTag", target |-> target]

\* Symbol.toStringTag of a proxy is read (as console.log and
\* Object.prototype.toString do): the get trap calls ensureResolved() and then
\* reads target[Symbol.toStringTag], whose getter calls resolveType(placeholder)
GetToStringTag(instance) ==
    /\ stack = <<>>
    /\ nodes[instance].lazy
    /\ nodes[instance].assigned + (IF nodes[instance].didResolve THEN 1 ELSE 2) <= MaxPopulations
    /\ stack' = IF nodes[instance].didResolve
                THEN <<ResolveFrame(nodes[instance].host, instance, FALSE, FALSE)>>
                ELSE << GetterFrame(instance),
                        ResolveFrame(nodes[instance].host, instance, FALSE, TRUE) >>
    /\ result' = NoResult
    /\ UNCHANGED <<programs, current, nodes, errors, annotated, hist>>

\* get(): string { resolveType(placeholder); ... } after ensureResolved returned
ToStringTagGetter ==
    /\ stack # <<>> /\ Top.op = "toStringTag"
    /\ stack' = <<ResolveFrame(nodes[Top.target].host, Top.target, FALSE, FALSE)>>
    /\ UNCHANGED <<programs, current, result, nodes, errors, annotated, hist>>

\* the member of the type being resolved that toSimpleTypeInternal is at
NextMember == MemberTypes(Top.type)[Top.next]

Resolving == stack # <<>> /\ Top.op = "resolveType" /\ Top.next <= Len(MemberTypes(Top.type))

\* the frame on top after toSimpleTypeCached(member, options) returned
MemberDone(frame, instance) ==
    [frame EXCEPT !.next = @ + 1, !.members = Append(@, instance)]

\* toSimpleTypeCached(member, options) inside resolveType: a cache hit
MemberHit ==
    /\ Resolving
    /\ CacheHas(hist.cache, NextMember)
    /\ hist' = RecordReturn(hist, NextMember, CacheGet(hist.cache, NextMember))
    /\ stack' = Append(Pop, MemberDone(Top, CacheGet(hist.cache, NextMember)))
    /\ UNCHANGED <<programs, current, result, nodes, errors, annotated>>

\* toSimpleTypeCached(member, options) inside an eager resolveType: a miss
MemberEager ==
    /\ Resolving
    /\ Top.eager
    /\ ~CacheHas(hist.cache, NextMember)
    /\ nodes' = Append(nodes, NewPlaceholder(NextMember, FALSE))
    /\ hist' = StoreNew(hist, NextMember)
    /\ stack' = Append(stack, ResolveFrame(NextMember, Len(nodes) + 1, TRUE, FALSE))
    /\ UNCHANGED <<programs, current, result, errors, annotated>>

\* toSimpleTypeCached(member, options) inside a lazy resolveType: a miss
MemberLazy ==
    /\ Resolving
    /\ ~Top.eager
    /\ ~CacheHas(hist.cache, NextMember)
    /\ nodes' = Append(nodes, NewPlaceholder(NextMember, TRUE))
    /\ hist' = RecordReturn(StoreNew(hist, NextMember), NextMember, Len(nodes) + 1)
    /\ stack' = Append(Pop, MemberDone(Top, Len(nodes) + 1))
    /\ UNCHANGED <<programs, current, result, errors, annotated>>

\* Object.assign(target, simpleTypeOverwrite), then Object.freeze(placeholder)
\* or didResolve = true, and the return to the caller
ResolveFinish ==
    /\ stack # <<>> /\ Top.op = "resolveType" /\ Top.next > Len(MemberTypes(Top.type))
    /\ nodes' = [nodes EXCEPT ![Top.target] =
                    [@ EXCEPT !.assigned = @ + 1, !.members = Top.members,
                              !.frozen = Top.eager, !.didResolve = @ \/ Top.ensure]]
    /\ stack' = IF Len(stack) > 1 /\ stack[Len(stack) - 1].op = "resolveType"
                THEN Append(SubSeq(stack, 1, Len(stack) - 2),
                            MemberDone(stack[Len(stack) - 1], Top.target))
                ELSE Pop
    /\ hist' = IF Top.eager THEN RecordReturn(hist, Top.type, Top.target) ELSE hist
    /\ result' = IF Len(stack) = 1 /\ Top.eager THEN Return(Top.target) ELSE result
    /\ UNCHANGED <<programs, current, errors, annotated>>

NextAdapt ==
    \/ \E type \in Types : ToSimpleTypeHit(type)
    \/ \E type \in Types : ToSimpleTypeEager(type)
    \/ \E type \in Types : ToSimpleTypeLazy(type)
    \/ \E instance \in DOMAIN nodes : EnsureResolved(instance)
    \/ \E instance \in DOMAIN nodes : GetToStringTag(instance)
    \/ ToStringTagGetter
    \/ MemberHit
    \/ MemberEager
    \/ MemberLazy
    \/ ResolveFinish

SpecAdapt == InitAdapt /\ [][NextAdapt]_vars

-----------------------------------------------------------------------------
(* Claims about the walker *)

StepsFrom(path, type) == {i \in 1..Len(path) : path[i].from = type}

\* C12: a visitor wrapped by Cyclical.preventCycles, invoked with (path, type),
\* returns a Cyclical whose cycle is the suffix of path that starts at the first
\* step originating at type, without invoking the wrapped visitor, when there is
\* such a step; otherwise it invokes the wrapped visitor once and returns its
\* result (or throws what it threw).
C12_PreventCyclesReturnsCycle ==
    hist.op = "preventCycles" =>
        LET from == StepsFrom(hist.path, hist.type)
            first == CHOOSE i \in from : \A j \in from : i <= j
            fn == hist.visitor.fn
        IN IF from # {}
           THEN /\ hist.log = <<>>
                /\ result = Return(Cyclical(SubSeq(hist.path, first, Len(hist.path))))
           ELSE /\ hist.log = <<Invocation(fn, hist.path, hist.type)>>
                /\ fn = "leaf" => result = Return(Visited(hist.path, hist.type))
                /\ fn = "void" => result = Return(Undefined)
                /\ fn = "throws" => result.kind = "throw" /\ result.error.message = <<>>

\* a path with two steps from the type: the cycle returned starts at the first
C12_Witness ==
    /\ hist.op = "preventCycles"
    /\ Cardinality(StepsFrom(hist.path, hist.type)) >= 2
    /\ hist.log = <<>>
    /\ result = Return(Cyclical(hist.path))

\* q is reached through p: p is a proper prefix of q
ReachedThrough(p, q) == Len(p) < Len(q) /\ SubSeq(q, 1, Len(p)) = p

\* the positions in the log of the invocations of one callback
InvocationsOf(fn) == {i \in 1..Len(hist.log) : hist.log[i].fn = fn}

\* C13: in walkDepthFirst over a type graph without cycles, `before` of a visit
\* precedes every callback of the visits reached through it; `after` of a
\* visit follows every callback of the visits reached through it, and by then
\* `after` has been called for each type that an edge of the visited type leads
\* to (default traversal); when no callback throws, `before` and `after` are
\* called for the same visits, each visit once.
C13_BeforeAndAfterBracketTheWalk ==
    hist.op = "walkDepthFirst" =>
        LET log == hist.log
        IN /\ \A i \in InvocationsOf("before"), j \in 1..Len(log) :
                  ReachedThrough(log[i].path, log[j].path) => i < j
           /\ \A i \in InvocationsOf("after"), j \in 1..Len(log) :
                  ReachedThrough(log[i].path, log[j].path) => j < i
           /\ hist.visitor.traverse # Some("mapJsonStep") =>
                  \A i \in InvocationsOf("after") : \A edge \in OutgoingEdges(log[i].type) :
                      \E j \in 1..(i - 1) :
                          log[j] = Invocation("after", Concat(log[i].path, edge.step), edge.type)
           /\ \A i, j \in 1..Len(log) : log[i] = log[j] => i = j
           /\ (result.kind = "value" /\ hist.visitor.before /\ hist.visitor.after) =>
                  /\ {[path |-> log[i].path, type |-> log[i].type] : i \in InvocationsOf("before")}
                       = {[path |-> log[i].path, type |-> log[i].type] : i \in InvocationsOf("after")}
                  /\ log[1] = Invocation("before", hist.path, hist.type)
                  /\ log[Len(log)] = Invocation("after", hist.path, hist.type)

\* the generic instantiation walked with both callbacks, none throwing
C13_Witness ==
    /\ hist.op = "walkDepthFirst"
    /\ hist.type = 10
    /\ hist.visitor.before /\ hist.visitor.after /\ hist.visitor.traverse = None
    /\ result = Return(Undefined)
    /\ \E i \in InvocationsOf("after") : Len(hist.log[i].path) >= 3

\* the caller's visitor returns from every call and is not wrapped
PlainVisitor == hist.visitor.fn \in {"leaf", "void"} /\ ~hist.visitor.preventCycles

\* the (path, type) pairs of the visits in the log
VisitsLogged == {[path |-> hist.log[i].path, type |-> hist.log[i].type] : i \in 1..Len(hist.log)}

LastStep(path) == path[Len(path)]

\* two visits made from the same visit of the same type
Siblings(p, q) ==
    /\ Len(p) >= 1 /\ Len(q) = Len(p)
    /\ SubSeq(p, 1, Len(p) - 1) = SubSeq(q, 1, Len(q) - 1)
    /\ LastStep(p).from = LastStep(q).from

\* the place of a step of a generic instantiation: body, target, arguments
GenericStepRank(step) ==
    CASE step.step = "ALIASED" -> 0
      [] step.step = "GENERIC_TARGET" -> 1
      [] step.step = "GENERIC_ARGUMENT" -> 2 + step.index[1]

\* C15: in a depth-first walk with the default traversal, the named members of
\* an object-like type are visited before its type parameters, and of a
\* generic instantiation the instantiated body is visited first, then the
\* generic target, then the generic arguments in index order.
C15_MembersBeforeTypeParameters ==
    (hist.op = "walkDepthFirst" /\ hist.visitor.before
         /\ hist.visitor.traverse # Some("mapJsonStep")) =>
        \A i, j \in InvocationsOf("before") :
            Siblings(hist.log[i].path, hist.log[j].path) =>
                LET a == LastStep(hist.log[i].path)
                    b == LastStep(hist.log[j].path)
                    kind == TypeGraph[a.from].kind
                IN /\ ( /\ kind \in {"INTERFACE", "OBJECT", "CLASS"}
                        /\ a.step = "NAMED_MEMBER" /\ b.step = "TYPE_PARAMETER" ) => i < j
                   /\ (kind = "GENERIC_ARGUMENTS" /\ GenericStepRank(a) < GenericStepRank(b))
                          => i < j

\* the sequence a list enumerator goes through
UnderlyingSequence(name, t) ==
    CASE name = "mapVariants" -> OrEmpty(TypeGraph[t].types)
      [] name = "mapNamedMembers" -> OrEmpty(TypeGraph[t].members)
      [] name = "mapIndexedMembers" -> OrEmpty(TypeGraph[t].members)
      [] name = "mapParameters" -> OrEmpty(TypeGraph[t].parameters)
      [] name = "mapGenericArguments" -> OrEmpty(TypeGraph[t].typeArguments)
      [] name = "mapTypeParameters" -> OrEmpty(TypeGraph[t].typeParameters)

\* C16: each list enumerator visits the elements of its sequence in index
\* order 0..n-1, each with a step whose index is the element's position and
\* whose from is the enumerated type, and returns the list whose i-th entry is
\* what visiting the i-th element returned.
C16_ListEnumeratorsKeepOrder ==
    (hist.op = "kindVisitor" /\ StartsWithMap(hist.name[1])
         /\ hist.visitor.fn = "leaf" /\ ~hist.visitor.preventCycles) =>
        LET elems == UnderlyingSequence(hist.name[1], hist.type)
        IN /\ Len(hist.log) = Len(elems)
           /\ \A i \in 1..Len(elems) :
                  /\ hist.log[i].fn = "leaf"
                  /\ hist.log[i].type = elems[i]
                  /\ Len(hist.log[i].path) = Len(hist.path) + 1
                  /\ SubSeq(hist.log[i].path, 1, Len(hist.path)) = hist.path
                  /\ LastStep(hist.log[i].path).index = Some(i - 1)
                  /\ LastStep(hist.log[i].path).from = hist.type
           /\ result = Return(JsArray([i \in 1..Len(elems) |->
                                          Visited(hist.log[i].path, elems[i])]))

\* the two parameters of the function type
C16_Witness ==
    /\ hist.op = "kindVisitor" /\ hist.name = Some("mapParameters")
    /\ hist.visitor.fn = "leaf" /\ ~hist.visitor.preventCycles
    /\ result.kind = "value" /\ Len(result.value.items) = 2
    /\ result.value.items[1].type # result.value.items[2].type

\* the steps of concrete data: what a JSON value of the type is made of
JsonSteps ==
    {"VARIANT", "NAMED_MEMBER", "NUMBER_INDEX", "STRING_INDEX", "INDEXED_MEMBER", "ALIASED"}

\* C17: mapJsonStep never takes a call-signature, constructor-signature,
\* type-parameter, parameter, return, generic-argument, generic-target or
\* awaited step: it visits only variants, named members, number and string
\* index types, tuple members, array elements and the aliased or instantiated
\* target, each at most once, and every edge it visits is an edge of the type
\* that mapAnyStep visits too.
C17_JsonStepsOnly ==
    (hist.op = "mapJsonStep" /\ PlainVisitor) =>
        LET any == MapAnyStep(NewAcc, hist.type, hist.path, hist.visitor).log
        IN /\ \A i \in 1..Len(hist.log) : LastStep(hist.log[i].path).step \in JsonSteps
           /\ \A i \in 1..Len(hist.log) : \E j \in 1..Len(any) : any[j] = hist.log[i]
           /\ VisitsLogged \subseteq
                  { [path |-> Concat(hist.path, edge.step), type |-> edge.type] :
                        edge \in OutgoingEdges(hist.type) }
           /\ \A i, j \in 1..Len(hist.log) : hist.log[i] = hist.log[j] => i = j

\* the interface: its members and index types are visited, its signatures
\* and type parameter are not
C17_Witness ==
    /\ hist.op = "mapJsonStep" /\ PlainVisitor
    /\ TypeGraph[hist.type].kind = "INTERFACE"
    /\ Len(hist.log) = 4
    /\ Cardinality(OutgoingEdges(hist.type)) = 7

-----------------------------------------------------------------------------
(* Claims about two runs *)

-----------------------------------------------------------------------------
(* Claims about the adapter *)

\* C19: with one cache, every adaptation of a host type handle returns the
\* same Type instance, also an adaptation made while the first one is still
\* resolving the type, and an entry stored in the cache is never replaced or
\* removed: the cache is set at most once per type and holds that instance.
C19_OneInstancePerHandle ==
    \A t \in Types :
        /\ Cardinality(hist.returned[t]) <= 1
        /\ Len(hist.stored[t]) <= 1
        /\ hist.stored[t] # <<>> =>
               /\ hist.cache[t] = Some(hist.stored[t][1])
               /\ hist.returned[t] \subseteq {hist.stored[t][1]}
               /\ nodes[hist.stored[t][1]].host = t
        /\ hist.stored[t] = <<>> => hist.cache[t] = None /\ hist.returned[t] = {}

\* the self-referential type, adapted eagerly: the adaptation of its member
\* returned the placeholder while the placeholder was being resolved, and a
\* later adaptation returned it again
C19_Witness ==
    /\ stack = <<>>
    /\ \E t \in Types :
           /\ hist.stored[t] # <<>>
           /\ LET instance == hist.stored[t][1]
              IN /\ nodes[instance].frozen
                 /\ nodes[instance].members = <<instance>>
                 /\ result = Return(instance)
                 /\ hist.returned[t] = {instance}
    /\ \E u \in Types : hist.stored[u] # <<>> /\ nodes[hist.stored[u][1]].lazy

-----------------------------------------------------------------------------
(* Claims about the compiler's current state *)

\* a call that runs under withState
StateFrame(frame) == frame.op \in {"compileProgram", "compileType"}

Returns == stack # <<>> /\ StateFrame(Top) /\ stack' = Pop

\* C20: after any call to compileProgram, compileType or compileReference
\* returns or throws, nested calls included, the compiler's current state is
\* what it was immediately before that call: outside every call it is the
\* state the compiler was constructed with, a call remembers the state it was
\* made in and its return or throw puts that state back, and no other step
\* (a compileReference call from beginning to end is one) changes the state.
C20_CurrentRestored ==
    /\ [](stack = <<>> => current = [outputLocation |-> None, program |-> 1])
    /\ [][ /\ Returns => current' = Top.prev
           /\ \A k \in (Len(stack) + 1)..Len(stack') :
                  StateFrame(stack'[k]) => stack'[k].prev = current
           /\ (Len(stack') <= Len(stack) /\ ~Returns) => current' = current ]_vars

\* a compileProgram is over whose backend called compiler.compileType for a
\* member, with the entry point's location as the current one meanwhile
C20_Witness ==
    /\ stack = <<>>
    /\ result.kind = "output"
    /\ "compileType" \in hist.flavours
    /\ hist.program # 1
    /\ current = [outputLocation |-> None, program |-> 1]

-----------------------------------------------------------------------------
(* Claims about compileProgram's entry points *)

\* the entry points of the program of the running compilation are assigned:
\* each key of program.entryPoints has the recorded location as its
\* declaration location
EntryPointsAssigned(program) ==
    \A i \in 1..Len(program.entryPoints) :
        program.typeToDeclarationLocationCache[program.entryPoints[i].key]
            = Some(program.entryPoints[i].value)

\* target.compileType has been called in the compilation under way
BackendCalled == \E t \in Types : hist.backendCalls[t] > 0

\* the types recorded in program.entryPoints
EntryPointTypes(program) == {program.entryPoints[i].key : i \in 1..Len(program.entryPoints)}

\* C21: in compileProgram, every entry point type has its declaration location
\* assigned and recorded in program.entryPoints before the target's
\* compileType is called for any type of that compilation: when compileProgram
\* has run its first loop every inputType of its argument is a key of
\* program.entryPoints with its declaration location as the value and the
\* target has not been called yet, and from then on the recorded entry points
\* stay what they are and stay assigned
C21_EntryPointsAssignedFirst ==
    /\ [][ \A entryPoints \in EntryPointInputs :
               CompileProgramCall(entryPoints) =>
                   /\ ~BackendCalled'
                   /\ EntryPointsAssigned(programs'[current'.program])
                   /\ EntryPointTypes(programs'[current'.program])
                          = {entryPoints[i].inputType : i \in 1..Len(entryPoints)} ]_vars
    /\ [][ (stack # <<>> /\ stack[1].op = "compileProgram") =>
               programs'[hist.program].entryPoints = programs[hist.program].entryPoints ]_vars
    /\ []((BackendCalled /\ hist.program # 1) => EntryPointsAssigned(programs[hist.program]))

C21_Witness ==
    /\ stack # <<>> /\ stack[1].op = "compileProgram"
    /\ Len(programs[hist.program].entryPoints) = 2
    /\ hist.backendCalls[programs[hist.program].entryPoints[1].key] = 1
    /\ hist.backendCalls[programs[hist.program].entryPoints[2].key] = 0
    /\ programs[hist.program].typeToDeclarationLocationCache[
           programs[hist.program].entryPoints[2].key] # None

-----------------------------------------------------------------------------
(* compileProgram called more than once on one compiler *)

MaxFreshCompilations == 2

\* compileProgram's entryPoints argument: one entry, or two entries in a.out
FreshEntryPointInputs ==
    {ep \in EntryPointInputs : \A i \in 1..Len(ep) : i > 1 => ep[i].outputLocation.fileName = "a.out"}

\* What the target's compileType does in these compilations
FreshBackendFlavours == {"plain", "declaration"}

NextFresh ==
    \/ \E entryPoints \in FreshEntryPointInputs :
           /\ hist.calls < MaxFreshCompilations
           /\ CompileProgramStart(entryPoints)
    \/ CompileProgramNext
    \/ CompileProgramAssign
    \/ CompileProgramFinish
    \/ CompileProgramThrow
    \/ KernelCached
    \/ KernelCycleReference("reference")
    \/ \E flavour \in FreshBackendFlavours : KernelDelegate(flavour, "visit", None)
    \/ BackendVisit
    \/ BackendReceive
    \/ BackendReturn
    \/ BackendThrow
    \/ WalkKernelReturn
    \/ WalkCatch
    \/ CompileTypeReturn
    \/ CompileTypeCatch

SpecFresh == InitCompiler /\ [][NextFresh]_vars

\* the fresh assignments of the compilation under way that count under `key`
AssignedUnder(key) ==
    {i \in 1..Len(hist.assigned) :
        OutputLocationToKey([hist.assigned[i].base EXCEPT
                                !.name = Some(hist.assigned[i].base.name)]) = key}

\* C22: each compileProgram call that is given no program starts from empty
\* per-compile state. In the program of the compilation under way every
\* declaration location was assigned in that compilation, every naming counter
\* counts that compilation's assignments only, so that the i-th type of a
\* base name is named by the types before it in the same compilation alone,
\* and every cached node was returned by the target in that compilation, so
\* that no node of an earlier compilation is returned
C22_FreshProgramPerCompilation ==
    LET program == programs[hist.program]
        counts == program.declarationLocationNameCount
    IN /\ \A t \in Types :
              program.typeToDeclarationLocationCache[t] # None =>
                  \E i \in 1..Len(hist.assigned) :
                      /\ hist.assigned[i].type = t
                      /\ program.typeToDeclarationLocationCache[t] = Some(hist.assigned[i].location)
       /\ \A k \in 1..Len(counts) : counts[k].value = Cardinality(AssignedUnder(counts[k].key))
       /\ \A i \in 1..Len(hist.assigned) :
              hist.assigned[i].location.name =
                  UniqueName(hist.assigned[i].base.name,
                      Cardinality({j \in AssignedUnder(
                                       OutputLocationToKey([hist.assigned[i].base EXCEPT
                                           !.name = Some(hist.assigned[i].base.name)])) : j < i}))
       /\ \A t \in Types :
              program.typeToAstNodeCache[t] # None => t \in hist.returnedCacheable
       /\ (hist.lastKernel # None /\ hist.lastKernel[1].branch = "cached") =>
              hist.lastKernel[1].type \in hist.returnedCacheable

\* a second compilation meets a type that the first one located and cached,
\* compiles it again and gives it the name the first one gave it
C22_Witness ==
    /\ hist.calls = 2 /\ Len(programs) = 3
    /\ \E t \in Types :
           /\ programs[2].typeToAstNodeCache[t] # None
           /\ programs[2].typeToDeclarationLocationCache[t] # None
           /\ hist.backendCalls[t] > 0
           /\ programs[3].typeToAstNodeCache[t] # None
           /\ programs[3].typeToDeclarationLocationCache[t]
                  = programs[2].typeToDeclarationLocationCache[t]

-----------------------------------------------------------------------------
(* assignDeclarationLocation called by a target while a compilation is at    *)
(* some output location, or at none                                          *)

MaxLocateCalls == 2

\* this.current.outputLocation when the target calls: unset, the location
\* compileType was called with, or an entry point's declaration location as
\* compileProgram passes it on (which has a name)
CurrentLocations ==
    { None,
      Some([fileName |-> "c.out", namespace |-> Some(<<"c">>)]),
      Some([fileName |-> "c.out", namespace |-> None, name |-> "Entry"]) }

\* results of target.suggestDeclarationLocation: undefined, a location, or a
\* declaration location (which has a name)
LocateSuggestions ==
    Suggestions \cup {Some([fileName |-> "b.out", namespace |-> Some(<<"s">>), name |-> Some("Bar")])}

InitLocate ==
    /\ programs = <<NewProgram>>
    /\ current \in {[outputLocation |-> l, program |-> 1] : l \in CurrentLocations}
    /\ stack = <<>>
    /\ result = NoResult
    /\ nodes = <<>>
    /\ errors = <<>>
    /\ annotated = {}
    /\ hist = InitHist

\* compiler.assignDeclarationLocation(type, location); the target's
\* suggestDeclarationLocation, consulted when there is no location argument,
\* returns `suggested`
LocateCall(type, location, suggested) ==
    LET before == programs[1].typeToDeclarationLocationCache[type]
        r == AssignDeclarationLocation(programs[1], current, type, location, suggested)
    IN /\ hist.calls < MaxLocateCalls
       /\ programs' = [programs EXCEPT ![1] = r.program]
       /\ result' = [ kind |-> "assigned", type |-> type, location |-> location,
                      suggested |-> suggested, before |-> before,
                      base |-> r.base.name, returned |-> r.location ]
       /\ hist' = [RecordAssign(hist, type, before, r) EXCEPT !.calls = @ + 1]
       /\ UNCHANGED <<current, stack, nodes, errors, annotated>>

NextLocate ==
    \E type \in Types, location \in LocationArgs :
        \E suggested \in (IF location = None THEN LocateSuggestions ELSE {None}) :
            LocateCall(type, location, suggested)

SpecLocate == InitLocate /\ [][NextLocate]_vars

\* The first available of: the location argument, the target's suggestion,
\* the file and namespace of the current output location, the empty location
FirstAvailableLocation(location, suggested, outputLocation) ==
    IF location # None THEN location[1]
    ELSE IF suggested # None THEN suggested[1]
    ELSE IF outputLocation # None
    THEN [ fileName |-> outputLocation[1].fileName,
           namespace |-> outputLocation[1].namespace, name |-> None ]
    ELSE [fileName |-> "", namespace |-> None, name |-> None]

\* C23: for a type with no existing assignment, assignDeclarationLocation
\* takes the file and namespace from the first available of the explicit
\* location argument, the target's suggestDeclarationLocation result, the
\* current output location and the empty location (fileName ""), and takes
\* the base name from that chosen location's name when it has one, otherwise
\* from inferTypeName(type); the name returned is the base name, with the
\* counter's suffix when the base name was used before
C23_LocationPrecedence ==
    (result.kind = "assigned" /\ result.before = None) =>
        LET chosen == FirstAvailableLocation(result.location, result.suggested,
                                             current.outputLocation)
            base == IF chosen.name # None THEN chosen.name[1] ELSE InferTypeName(result.type)
        IN /\ result.returned.fileName = chosen.fileName
           /\ result.returned.namespace = chosen.namespace
           /\ result.base = base
           /\ \E k \in 0..MaxLocateCalls : result.returned.name = UniqueName(base, k)

\* The current output location is the one chosen, for a type that comes after
\* another of the same inferred name
C23_Witness ==
    /\ result.kind = "assigned" /\ result.before = None
    /\ result.location = None /\ result.suggested = None
    /\ current.outputLocation # None
    /\ result.returned.fileName = "c.out"
    /\ result.returned.name = "AnonymousObject1"

-----------------------------------------------------------------------------
(* Claims about compileReference *)

\* the nodes held in the type-to-node cache of some program
CachedNodes ==
    { programs[p].typeToAstNodeCache[t][1] :
        p \in {q \in 1..Len(programs) : \E t \in Types : programs[q].typeToAstNodeCache[t] # None},
        t \in {u \in Types : \E q \in 1..Len(programs) : programs[q].typeToAstNodeCache[u] # None} }

\* the node a step leaves as its result is a reference node referring to location
ReturnsReferenceTo(location) ==
    /\ result'.kind = "value"
    /\ IsReference(nodes'[result'.node])
    /\ nodes'[result'.node].refersTo = Some(location)

\* the visit of a type met again on its path, by compileType's visitor,
\* returns: the step that is its compileReference call
CycleReferenceReturns == KernelAt("reference") /\ stack' = Pop

\* C24: compileReference returns a reference node whose refersTo equals
\* to.location whenever the target's compileReference returns a plain
\* cacheable node, wherever it is called from (compileType's visitor at a
\* cycle, builder.reference for a declaration, or outside a compilation); and
\* in every case the node compileReference returns for a cycle is not stored
\* in the program's type-to-node cache: the visit leaves the caches as they
\* are, and the cached nodes are nodes the target's compileType built for the
\* type they are cached under
C24_CompileReferenceUpgrades ==
    /\ [][ /\ KernelCycleReference("plain") =>
                  ReturnsReferenceTo(
                      programs[current.program].typeToDeclarationLocationCache[Top.type][1])
           /\ (WalkCustomReturn("plain") /\ IsDeclaration(nodes[result.node])
                   /\ current.outputLocation # None) =>
                  ReturnsReferenceTo(nodes[result.node].location[1])
           /\ \A referenceArgs \in ReferenceArgs :
                  CompileReferenceCall(referenceArgs, "plain") =>
                      ReturnsReferenceTo(referenceArgs.to.location) ]_vars
    /\ [][ CycleReferenceReturns =>
               /\ programs' = programs
               /\ result'.kind = "value"
               /\ result'.node \notin CachedNodes' ]_vars
    /\ [](\A p \in 1..Len(programs), t \in Types :
              programs[p].typeToAstNodeCache[t] # None =>
                  nodes[programs[p].typeToAstNodeCache[t][1]].type = Some(t))

\* a cycle was answered with a reference made from the target's plain
\* cacheable node, and the type is not cached
C24_Witness ==
    /\ hist.lastKernel # None
    /\ hist.lastKernel[1].branch = "reference"
    /\ hist.lastKernel[1].flavour = "plain"
    /\ IsReference(nodes[hist.lastKernel[1].node[1]])
    /\ nodes[hist.lastKernel[1].node[1]].refersTo = hist.lastKernel[1].location
    /\ nodes[nodes[hist.lastKernel[1].node[1]].children[1]].shouldCache
    /\ programs[hist.program].typeToAstNodeCache[hist.lastKernel[1].type] = None

-----------------------------------------------------------------------------
(* Claims about compileType's errors *)

\* a RangeError about the call stack size
IsStackOverflow(error) == error.cls = "RangeError" /\ error.origin = "call stack size"

\* compileType's catch receives a RangeError thrown while the walk was at a
\* type that its path includes, i.e. while going around a cycle
CircularOverflowCaught ==
    /\ stack # <<>> /\ Top.op = "compileType" /\ result.kind = "throw"
    /\ IsStackOverflow(errors[result.error])
    /\ errors[result.error].thrownIn # None
    /\ Includes(errors[result.error].thrownIn[1].path, errors[result.error].thrownIn[1].type)
    /\ stack' = Pop

\* C25: when compileType's recursion around a cycle on which no type has a
\* declaration location exhausts the call stack, compileType throws a
\* 'Circular compilation' error that names the first named type on the cyclic
\* subpath (the path of the walk where the stack ran out, from the first step
\* from the type met again) and carries the original range error as its
\* cause; nothing else comes out of that compileType, nor of the calls around it
C25_CircularCompilationNamesType ==
    /\ [][ CircularOverflowCaught =>
               /\ result'.kind = "throw"
               /\ errors'[result'.error].cls = "Error"
               /\ errors'[result'.error].origin = "circular"
               /\ errors'[result'.error].cause = Some(result.error)
               /\ errors'[result'.error].names =
                      FirstNamedType(GetSubpathFrom(errors[result.error].thrownIn[1].path,
                                                    errors[result.error].thrownIn[1].type)) ]_vars
    /\ []((stack = <<>> /\ \E e \in 1..Len(errors) : IsStackOverflow(errors[e])) =>
              /\ result.kind = "throw"
              /\ errors[result.error].origin = "circular"
              /\ errors[result.error].cause # None
              /\ IsStackOverflow(errors[errors[result.error].cause[1]]))

\* the same without the name: the error thrown is the 'Circular compilation'
\* error with the range error as its cause, and nothing else comes out
C25_CircularCompilationThrown ==
    /\ [][ CircularOverflowCaught =>
               /\ result'.kind = "throw"
               /\ errors'[result'.error].cls = "Error"
               /\ errors'[result'.error].origin = "circular"
               /\ errors'[result'.error].cause = Some(result.error) ]_vars
    /\ []((stack = <<>> /\ \E e \in 1..Len(errors) : IsStackOverflow(errors[e])) =>
              /\ result.kind = "throw"
              /\ errors[result.error].origin = "circular"
              /\ errors[result.error].cause # None
              /\ IsStackOverflow(errors[errors[result.error].cause[1]]))

\* a compilation came to its end with a 'Circular compilation' error that
\* names no type, though the cycle is one of the named type Foo
C25_UnnamedCycle ==
    /\ stack = <<>> /\ result.kind = "throw"
    /\ errors[result.error].origin = "circular"
    /\ errors[result.error].names = None
    /\ LET overflow == errors[errors[result.error].cause[1]]
       IN FirstNamedType(GetSubpathFrom(overflow.thrownIn[1].path, overflow.thrownIn[1].type))
              = Some("Foo")

\* compileType's visitor is at a type met again on its path, which has a
\* declaration location and no cached node, while current.outputLocation is unset
CycleWithoutOutputLocation ==
    /\ stack # <<>> /\ Top.op = "walk" /\ Top.fn = "kernel" /\ Top.pc = "enter"
    /\ result.kind = "none"
    /\ programs[current.program].typeToAstNodeCache[Top.type] = None
    /\ Includes(Top.path, Top.type)
    /\ programs[current.program].typeToDeclarationLocationCache[Top.type] # None
    /\ current.outputLocation = None

\* builder.reference(node) is asked, without chunks, for a reference to a
\* declaration node while the builder has no location
BuilderWithoutLocation ==
    /\ stack # <<>> /\ Top.op = "walk" /\ Top.fn = "custom"
    /\ result.kind = "value"
    /\ IsDeclaration(nodes[result.node])
    /\ current.outputLocation = None

\* the step throws an Error and target.compileReference has not run: no node
\* was made and no compileReference call recorded
ThrowsWithoutCompileReference ==
    /\ result'.kind = "throw"
    /\ Len(errors') = Len(errors) + 1
    /\ result'.error = Len(errors')
    /\ errors'[result'.error].cls = "Error"
    /\ errors'[result'.error].origin = "noLocation"
    /\ nodes' = nodes
    /\ hist'.flavours = hist.flavours

\* C26: whenever a reference has to be compiled while no source location is
\* available (a cycle is met in compileType while current.outputLocation is
\* unset, or a node builder with no location is asked to reference a
\* declaration without chunks), an error is thrown and the target's
\* compileReference is not called
C26_NoLocationThrows ==
    [][ (CycleWithoutOutputLocation \/ BuilderWithoutLocation) =>
            ThrowsWithoutCompileReference ]_vars

\* a builder without a location, asked for a reference to the declaration
\* that compileType returned, has thrown, no reference having been compiled
C26_Witness ==
    /\ stack # <<>> /\ Top.op = "walk" /\ Top.fn = "custom"
    /\ result.kind = "throw"
    /\ errors[result.error].origin = "noLocation"
    /\ errors[result.error].crossed = <<>>
    /\ current.outputLocation = None
    /\ \E n \in 1..Len(nodes) : IsDeclaration(nodes[n])
    /\ \A flavour \in ReferenceFlavours : ("reference:" \o flavour) \notin hist.flavours

\* a cycle met without an output location has ended the compilation with its
\* error, no reference having been compiled
CycleWithoutOutputLocationThrew ==
    /\ stack = <<>> /\ result.kind = "throw"
    /\ errors[result.error].origin = "noLocation"
    /\ hist.lastKernel # None /\ hist.lastKernel[1].branch = "noLocation"
    /\ ~hist.lastKernel[1].hasOutputLocation
    /\ \A flavour \in ReferenceFlavours : ("reference:" \o flavour) \notin hist.flavours

-----------------------------------------------------------------------------
(* Claims about lazy adaptation *)

\* the resolveType calls in progress that fill `instance`
PopulationsRunning(instance) ==
    Cardinality({k \in 1..Len(stack) :
                    stack[k].op = "resolveType" /\ stack[k].target = instance})

\* C27: in lazy mode the fields of an adapted type are populated at most
\* once: after the first property access has triggered population, no later
\* access of any property (Symbol.toStringTag included, and accesses made
\* while population is still running included) runs the population again.
\* Counting the populations done and those in progress, no proxy has more
\* than one
C27_PopulatedAtMostOnce ==
    \A instance \in DOMAIN nodes :
        nodes[instance].lazy =>
            nodes[instance].assigned + PopulationsRunning(instance) <= 1

\* a proxy populated by a property access and populated again by a read of
\* its Symbol.toStringTag
C27_PopulatedTwice ==
    /\ stack = <<>>
    /\ \E instance \in DOMAIN nodes :
           nodes[instance].lazy /\ nodes[instance].didResolve /\ nodes[instance].assigned = 2

-----------------------------------------------------------------------------
(* SimpleTypePath.includes and getSubpathFrom on a path the caller holds.    *)
(* Here `nodes` is the caller's path array, `result` what the call returned  *)
(* and hist the call.                                                        *)

MaxSubpathLen == 3

MaxPathCalls == 2

\* the types the steps of the caller's path originate at: objects, told apart
\* by identity
SubpathTypes == {1, 2, 3}

\* paths of up to MaxSubpathLen steps
SubpathInputs ==
    UNION { [1..n -> {NamedMemberStep(from, 0) : from \in SubpathTypes}] : n \in 0..MaxSubpathLen }

PathCall(op, type, calls) == [op |-> op, path |-> nodes, type |-> type, calls |-> calls]

InitPath ==
    /\ programs = <<NewProgram>>
    /\ current = [outputLocation |-> None, program |-> 1]
    /\ stack = <<>>
    /\ result = NoResult
    /\ nodes \in SubpathInputs
    /\ errors = <<>>
    /\ annotated = {}
    /\ hist = [op |-> "none", path |-> nodes, type |-> 1, calls |-> 0]

\* SimpleTypePath.includes(path, type)
IncludesCall(type) ==
    /\ hist.calls < MaxPathCalls
    /\ result' = [kind |-> "value", value |-> Includes(nodes, type)]
    /\ hist' = PathCall("includes", type, hist.calls + 1)
    /\ UNCHANGED <<programs, current, stack, nodes, errors, annotated>>

\* SimpleTypePath.getSubpathFrom(path, type)
GetSubpathFromCall(type) ==
    /\ hist.calls < MaxPathCalls
    /\ result' = [kind |-> "value", value |-> GetSubpathFrom(nodes, type)]
    /\ hist' = PathCall("getSubpathFrom", type, hist.calls + 1)
    /\ UNCHANGED <<programs, current, stack, nodes, errors, annotated>>

NextPath ==
    \/ \E type \in SubpathTypes : IncludesCall(type)
    \/ \E type \in SubpathTypes : GetSubpathFromCall(type)

SpecPath == InitPath /\ [][NextPath]_vars

\* C28: getSubpathFrom(path, t) returns the suffix of path that begins at the
\* first step whose from is t, and returns undefined exactly when
\* includes(path, t) is false, which is when no step of path is from t;
\* neither operation changes path
C28_SubpathFromFirstStep ==
    LET path == hist.path
        from == {i \in 1..Len(path) : path[i].from = hist.type}
    IN /\ hist.op = "includes" => result.value = (from # {})
       /\ hist.op = "getSubpathFrom" =>
              /\ (result.value = None) <=> ~Includes(path, hist.type)
              /\ (result.value = None) <=> (from = {})
              /\ from # {} =>
                     \E first \in from :
                         /\ \A i \in from : first <= i
                         /\ Len(result.value[1]) = Len(path) - first + 1
                         /\ \A k \in 1..Len(result.value[1]) :
                                result.value[1][k] = path[first + k - 1]
       /\ nodes = hist.path

\* the type is met twice on the path, after a step from another type: the
\* subpath returned starts at the first of its steps, inside the path
C28_Witness ==
    /\ hist.op = "getSubpathFrom"
    /\ Len(hist.path) = 3
    /\ hist.path[1].from # hist.type
    /\ hist.path[2].from = hist.type /\ hist.path[3].from = hist.type
    /\ result.value = Some(SubSeq(hist.path, 2, 3))
    /\ nodes = hist.path

-----------------------------------------------------------------------------
(* Claims about the naming counters *)

\* the key of the counter that the i-th fresh assignment read and incremented
CounterKeyOf(i) ==
    OutputLocationToKey([hist.assigned[i].base EXCEPT !.name = Some(hist.assigned[i].base.name)])

\* C29: two declaration locations share one naming counter if and only if
\* they have the same fileName, namespaces that are equal by namespaceEqual
\* (element-wise, absence equal only to absence) and the same base name;
\* locations differing in any of the three never share a counter
C29_CounterPerFileNamespaceName ==
    \A i, j \in 1..Len(hist.assigned) :
        (CounterKeyOf(i) = CounterKeyOf(j)) <=>
            /\ hist.assigned[i].base.fileName = hist.assigned[j].base.fileName
            /\ NamespaceEqual(hist.assigned[i].base, hist.assigned[j].base)
            /\ hist.assigned[i].base.name = hist.assigned[j].base.name

\* two fresh assignments to namespaces that namespaceEqual tells apart, the
\* second of which was named by the counter of the first
C29_SharedAcrossNamespaces ==
    \E i, j \in 1..Len(hist.assigned) :
        /\ i < j
        /\ ~NamespaceEqual(hist.assigned[i].base, hist.assigned[j].base)
        /\ CounterKeyOf(i) = CounterKeyOf(j)
        /\ hist.assigned[i].location.name = "Foo"
        /\ hist.assigned[j].location.name = "Foo1"

-----------------------------------------------------------------------------
(* inferTypeName over structural types.  The types of InferGraph carry no   *)
(* getTypescript method, so the visitor names the type it is handed.        *)

\* the depth of nested visits the call stack has room for
MaxInferDepth == 6

MaxInferCalls == 2

\* a finite graph of SimpleType objects; `types` lists the types a kind's
\* visitor visits, in the order in which inferTypeName's visitor visits them:
\* ARRAY: type;  UNION, INTERSECTION: types;  ALIAS: target;
\* GENERIC_ARGUMENTS: typeArguments, then target, then instantiated
InferGraph ==
    << [kind |-> "STRING",            name |-> None,         types |-> <<>>],
       [kind |-> "INTERFACE",         name |-> Some("Foo"),  types |-> <<>>],
       [kind |-> "OBJECT",            name |-> None,         types |-> <<>>],
       [kind |-> "ARRAY",             name |-> None,         types |-> <<2>>],
       [kind |-> "ARRAY",             name |-> None,         types |-> <<3>>],
       [kind |-> "UNION",             name |-> None,         types |-> <<1, 2, 4>>],
       [kind |-> "UNION",             name |-> None,         types |-> <<1, 3>>],
       [kind |-> "INTERSECTION",      name |-> None,         types |-> <<2, 4>>],
       [kind |-> "ALIAS",             name |-> None,         types |-> <<3>>],
       [kind |-> "GENERIC_ARGUMENTS", name |-> None,         types |-> <<4, 1, 2, 3>>],
       [kind |-> "GENERIC_ARGUMENTS", name |-> None,         types |-> <<1, 3, 3>>],
       \* type Json = string | Json[]: the cycle passes through a named type
       [kind |-> "UNION",             name |-> Some("Json"), types |-> <<1, 13>>],
       [kind |-> "ARRAY",             name |-> None,         types |-> <<12>>],
       \* an unnamed array whose element type is the array
       [kind |-> "ARRAY",             name |-> None,         types |-> <<14>>],
       \* an unnamed union that reaches itself through an unnamed array
       [kind |-> "UNION",             name |-> None,         types |-> <<2, 16>>],
       [kind |-> "ARRAY",             name |-> None,         types |-> <<15>>],
       \* an unnamed generic instantiation whose argument is the instantiation
       [kind |-> "GENERIC_ARGUMENTS", name |-> None,         types |-> <<17, 2, 3>>] >>

InferTypes == 1..Len(InferGraph)

\* the kinds whose case of the visitor's switch visits further types
StructuralKinds == {"ARRAY", "UNION", "INTERSECTION", "GENERIC_ARGUMENTS", "ALIAS"}

\* inner.filter(Boolean): the names that were found
FilterBoolean(inner) ==
    LET found == SelectSeq(inner, LAMBDA n : n # None /\ n # Some(""))
    IN  [i \in 1..Len(found) |-> found[i][1]]

\* inner.some(Boolean) ? inner.filter(Boolean).join(sep) : otherwise
JoinFound(inner, sep, otherwise) ==
    IF FilterBoolean(inner) # <<>> THEN Join(FilterBoolean(inner), sep) ELSE otherwise

\* the GENERIC_ARGUMENTS case, from the names of the type arguments, of the
\* generic target and of the instantiated type
GenericArgumentsName(args, genericName, outputName) ==
    IF outputName # None /\ outputName # Some("") THEN outputName[1]
    ELSE (IF genericName # None /\ genericName # Some("") THEN genericName[1] ELSE "Generic")
             \o (IF args # None THEN "Of" \o args[1] ELSE "")

\* the visitor's switch (type.kind), given what the visits returned
KindName(kind, inner) ==
    CASE kind = "ARRAY" ->
            IF inner[1] # None /\ inner[1] # Some("")
            THEN Some("ArrayOf" \o inner[1][1]) ELSE Some("Array")
      [] kind = "UNION" -> Some(JoinFound(inner, "Or", "Union"))
      [] kind = "INTERSECTION" -> Some(JoinFound(inner, "And", "Intersection"))
      [] kind = "GENERIC_ARGUMENTS" ->
            Some(GenericArgumentsName(
                IF FilterBoolean(SubSeq(inner, 1, Len(inner) - 2)) # <<>>
                THEN Some(Join(FilterBoolean(SubSeq(inner, 1, Len(inner) - 2)), "And"))
                ELSE None,
                inner[Len(inner) - 1],
                inner[Len(inner)]))
      [] kind = "ALIAS" ->
            IF inner[1] # None /\ inner[1] # Some("") THEN inner[1] ELSE None
      [] OTHER -> None

\* what a visit comes to: a name or undefined returned, or an error thrown
Returned(name) == [thrown |-> FALSE, name |-> name]

\* the engine's RangeError when the call stack is exhausted
StackOverflow == [thrown |-> TRUE, name |-> None]

RECURSIVE InferVisitor(_, _)
RECURSIVE InferEach(_, _, _, _)

\* the rest of a kind's visits after the i-th has come back with `visited`
InferNext(visited, types, i, depth, inner) ==
    IF visited.thrown THEN [thrown |-> TRUE, inner |-> inner]
    ELSE InferEach(types, i + 1, depth, Append(inner, visited.name))

\* the visits a kind's case makes, one after the other; an error thrown by
\* one of them ends the case
InferEach(types, i, depth, inner) ==
    IF i > Len(types) THEN [thrown |-> FALSE, inner |-> inner]
    ELSE InferNext(InferVisitor(types[i], depth), types, i, depth, inner)

\* a kind's case once its visits are over
VisitedName(type, visits) ==
    IF visits.thrown THEN StackOverflow
    ELSE Returned(KindName(InferGraph[type].kind, visits.inner))

\* inferTypeName's visitor under walkRecursive, which visits every type it
\* is handed, however often it has been handed it before
InferVisitor(type, depth) ==
    IF depth > MaxInferDepth THEN StackOverflow
    ELSE IF InferGraph[type].name # None /\ InferGraph[type].name # Some("")
    THEN Returned(InferGraph[type].name)
    ELSE IF InferGraph[type].kind \in StructuralKinds
    THEN VisitedName(type, InferEach(InferGraph[type].types, 1, depth + 1, <<>>))
    ELSE Returned(None)

\* name ?? snakeCaseToCamelCase(`ANONYMOUS_${rootType.kind}`)
RootName(rootType, walked) ==
    IF walked.thrown THEN [kind |-> "throw", error |-> "RangeError"]
    ELSE [kind |-> "value",
          value |-> IF walked.name # None THEN walked.name[1]
                    ELSE SnakeCaseToCamelCase("ANONYMOUS_" \o InferGraph[rootType].kind)]

\* inferTypeName(rootType)
InferStructuralTypeName(rootType) == RootName(rootType, InferVisitor(rootType, 1))

InitInfer ==
    /\ programs = <<NewProgram>>
    /\ current = [outputLocation |-> None, program |-> 1]
    /\ stack = <<>>
    /\ result = NoResult
    /\ nodes = <<>>
    /\ errors = <<>>
    /\ annotated = {}
    /\ hist = [op |-> "none", type |-> 0, calls |-> 0, called |-> <<>>]

\* one call of inferTypeName
InferTypeNameCall(rootType) ==
    /\ hist.calls < MaxInferCalls
    /\ result' = InferStructuralTypeName(rootType)
    /\ hist' = [op |-> "inferTypeName", type |-> rootType, calls |-> hist.calls + 1,
                called |-> Append(hist.called, rootType)]
    /\ UNCHANGED <<programs, current, stack, nodes, errors, annotated>>

NextInfer == \E rootType \in InferTypes : InferTypeNameCall(rootType)

SpecInfer == InitInfer /\ [][NextInfer]_vars

RECURSIVE ReachesUnnamed(_, _, _)
\* whether `to` is reached from `from` through the visits of unnamed
\* structural types alone, in at most n steps
ReachesUnnamed(from, to, n) ==
    /\ n > 0
    /\ InferGraph[from].name = None
    /\ InferGraph[from].kind \in StructuralKinds
    /\ \E i \in 1..Len(InferGraph[from].types) :
          \/ InferGraph[from].types[i] = to
          \/ ReachesUnnamed(InferGraph[from].types[i], to, n - 1)

\* the types from which the visitor comes to an unnamed structural type that
\* reaches itself
ReachesUnnamedCycle(rootType) ==
    \E t \in InferTypes :
        /\ ReachesUnnamed(t, t, Len(InferGraph))
        /\ (t = rootType \/ ReachesUnnamed(rootType, t, Len(InferGraph)))

\* C30: inferTypeName(type) returns a non-empty name for every finite type
\* graph, also when an unnamed array, union, intersection, alias or generic
\* instantiation reaches itself through its elements, variants, target or
\* arguments
C30_InferTypeNameReturnsName ==
    hist.op = "inferTypeName" =>
        /\ result.kind = "value"
        /\ result.value # ""

\* where no unnamed structural type reaches itself, inferTypeName returns a
\* non-empty name
C30_NamedWithoutUnnamedCycle ==
    (hist.op = "inferTypeName" /\ ~ReachesUnnamedCycle(hist.type)) =>
        /\ result.kind = "value"
        /\ result.value # ""

\* inferTypeName of an unnamed array of itself ends in the RangeError
C30_UnnamedCycleOverflows ==
    /\ hist.op = "inferTypeName"
    /\ hist.type = 14
    /\ result = [kind |-> "throw", error |-> "RangeError"]

\* the names of the types that no unnamed cycle is reached from
C30_Names ==
    hist.op = "inferTypeName" =>
        CASE hist.type = 1 -> result.value = "AnonymousString"
          [] hist.type = 2 -> result.value = "Foo"
          [] hist.type = 3 -> result.value = "AnonymousObject"
          [] hist.type = 4 -> result.value = "ArrayOfFoo"
          [] hist.type = 5 -> result.value = "Array"
          [] hist.type = 6 -> result.value = "FooOrArrayOfFoo"
          [] hist.type = 7 -> result.value = "Union"
          [] hist.type = 8 -> result.value = "FooAndArrayOfFoo"
          [] hist.type = 9 -> result.value = "AnonymousAlias"
          [] hist.type = 10 -> result.value = "FooOfArrayOfFoo"
          [] hist.type = 11 -> result.value = "Generic"
          [] hist.type = 12 -> result.value = "Json"
          [] hist.type = 13 -> result.value = "ArrayOfJson"
          [] OTHER -> result.kind = "throw"

====
